---- MODULE Spec2Model ----
(***************************************************************************)
(* The rules/state engine of gomoku-qt (src/src/core.hpp): the 15x15       *)
(* Board with its line scan, and the Game ledger (moves, index, win) with  *)
(* make_move / undo / redo / jump.                                         *)
(***************************************************************************)
EXTENDS Integers, Sequences, FiniteSets, TLC

(***************************************************************************)
(* Program constants.                                                      *)
(***************************************************************************)
\* enum struct Stone : u8 { None = 0, Black = 1, White = 2 }
None == 0
Black == 1
White == 2
Stone == {None, Black, White}

\* const usize BOARD_SIZE = 15
BOARD_SIZE == 15

\* the run length that wins: `scan_row(p, axis, row) >= 5`
WIN_LEN == 5

\* Point coordinates are u32 (typedef std::uint32_t u32).  A u32 is held as
\* its 32 bits read in two's complement, so 4294967295 is -1 here: I32_MAX is
\* the largest value with the top bit clear
I32_MAX == 2147483647

(***************************************************************************)
(* Bounds of the model.                                                    *)
(***************************************************************************)
\* Spec offers make_move the first BlockCells cells of a block two cells
\* wide, in both colours
BlockCells == 3
\* SpecRow offers make_move the RowCells cells of one row, in Black
RowCells == 6

\* the longest byte array of arbitrary bytes given to deserialize
MaxBytes == 4

\* SpecScan starts from boards with up to MaxArm stones before and after
\* one cell along each axis
MaxArm == 2

\* SpecEdge starts from boards with stones on the first EdgeCells of the
\* cells EdgeList beside the edges of the board
EdgeCells == 6

\* SpecLine starts from boards with stones on the first LineCells cells of
\* one row of the board
LineCells == 7

\* SpecPlay plays on PlayCells cells of one row
PlayCells == 5

\* SpecZigzag encodes the integers from -ZigMax to ZigMax
ZigMax == 24

\* SpecMorton interleaves the integers from 0 to MortonMax, besides others
MortonMax == 3

\* the longest array of arbitrary bytes in a text given to import_game
ImportBytes == 2

\* the first of the offered cells
Origin == [x |-> 5, y |-> 7]

(***************************************************************************)
(* Stone, Axis, Point.                                                     *)
(***************************************************************************)
opposite(stone) ==
    CASE stone = Black -> White
      [] stone = White -> Black
      [] OTHER -> None

\* fault: AXES with the horizontal axis first
AXES_rows_first == <<"Horizontal", "Vertical", "Ascending", "Descending">>

AXES == <<"Vertical", "Ascending", "Horizontal", "Descending">>

unit_vec(axis) ==
    CASE axis = "Vertical" -> <<0, 1>>
      [] axis = "Ascending" -> <<1, -1>>
      [] axis = "Horizontal" -> <<1, 0>>
      [] axis = "Descending" -> <<1, 1>>
      [] OTHER -> <<0, 0>>

Point(x, y) == [x |-> x, y |-> y]

\* u32 + i32 for a step d in {-1, 0, 1}: addition modulo 2^32
u32_add(a, d) ==
    IF d = 1 /\ a = I32_MAX THEN (-I32_MAX) - 1
    ELSE IF d = -1 /\ a = (-I32_MAX) - 1 THEN I32_MAX
    ELSE a + d

\* the unsigned comparison a < b of two u32
u32_less(a, b) ==
    IF (a < 0) = (b < 0) THEN a < b ELSE b < 0

adjacent(p, axis, forward) ==
    LET dx == unit_vec(axis)[1]
        dy == unit_vec(axis)[2]
    IN  IF forward
        THEN Point(u32_add(p.x, dx), u32_add(p.y, dy))
        ELSE Point(u32_add(p.x, -dx), u32_add(p.y, -dy))

in_board(p) == u32_less(p.x, BOARD_SIZE) /\ u32_less(p.y, BOARD_SIZE)

(***************************************************************************)
(* Board: `mat` is a vector of BOARD_SIZE * BOARD_SIZE stones, cell p at   *)
(* p.y * BOARD_SIZE + p.x.  at() throws for a point outside the board; the *)
(* operators below are applied to in-board points only, the callers model  *)
(* the throw.                                                              *)
(***************************************************************************)
Cells == 0 .. (BOARD_SIZE * BOARD_SIZE - 1)

EmptyBoard == [c \in Cells |-> None]

cell(p) == p.y * BOARD_SIZE + p.x

at(mat, p) == mat[cell(p)]

\* fault: set() with the coordinates exchanged in the cell's index
set_transposed(mat, p, stone) ==
    [mat EXCEPT ![p.x * BOARD_SIZE + p.y] = stone]

set(mat, p, stone) == [mat EXCEPT ![cell(p)] = stone]

\* fault: unset writing the cell with x and y in each other's places
unset_transposed(mat, p) ==
    [mat EXCEPT ![p.x * BOARD_SIZE + p.y] = None]

unset(mat, p) == [mat EXCEPT ![cell(p)] = None]

\* the lambda `scan` of scan_row: walks from cur while the next cell is in
\* the board and holds `stone`, counting the cells passed
RECURSIVE scan(_, _, _, _, _, _)
scan(mat, stone, axis, cur, forward, len) ==
    LET next == adjacent(cur, axis, forward)
    IN  IF in_board(next) /\ at(mat, next) = stone
        THEN scan(mat, stone, axis, next, forward, len + 1)
        ELSE [cur |-> cur, len |-> len]

\* fault: the forward scan of scan_row starting its count again at 1
scan_row_restart(mat, p, axis) ==
    LET stone == at(mat, p)
        back == scan(mat, stone, axis, p, FALSE, 1)
        fwd == scan(mat, stone, axis, p, TRUE, 1)
    IN  [len |-> fwd.len, row |-> [start |-> back.cur, end |-> fwd.cur]]

scan_row(mat, p, axis) ==
    LET stone == at(mat, p)
        back == scan(mat, stone, axis, p, FALSE, 1)
        fwd == scan(mat, stone, axis, p, TRUE, back.len)
    IN  [len |-> fwd.len, row |-> [start |-> back.cur, end |-> fwd.cur]]

\* fault: find_win_row accepting a row of exactly five only
RECURSIVE find_win_row_from_exact(_, _, _)
find_win_row_from_exact(mat, p, i) ==
    IF i > Len(AXES)
    THEN << >>
    ELSE LET r == scan_row(mat, p, AXES[i])
         IN  IF r.len = WIN_LEN
             THEN <<r.row>>
             ELSE find_win_row_from_exact(mat, p, i + 1)

\* the loop of find_win_row over AXES, from the i-th axis on
RECURSIVE find_win_row_from(_, _, _)
find_win_row_from(mat, p, i) ==
    IF i > Len(AXES)
    THEN << >>
    ELSE LET r == scan_row(mat, p, AXES[i])
         IN  IF r.len >= WIN_LEN
             THEN <<r.row>>
             ELSE find_win_row_from(mat, p, i + 1)

\* optional<Row>: << >> is nullopt, <<row>> a value
find_win_row(mat, p) ==
    IF at(mat, p) = None THEN << >> ELSE find_win_row_from(mat, p, 1)

(***************************************************************************)
(* Game: board, moves, index, win.  An optional<Win> is << >> (nullopt) or *)
(* <<[index, row]>>.  Each operation maps a game to the game after the     *)
(* call and the call's outcome: "true", "false" or "throws".               *)
(***************************************************************************)
NewGame == [board |-> EmptyBoard, moves |-> << >>, index |-> 0, win |-> << >>]

Move(p, stone) == [pos |-> p, stone |-> stone]

total_moves(g) == Len(g.moves)

past_moves(g) == SubSeq(g.moves, 1, g.index)

future_moves(g) == SubSeq(g.moves, g.index + 1, Len(g.moves))

\* fault: first_win() without the test of the index
first_win_any(g) == g.win

\* fault: first_win() with `<` for `<=`
first_win_strict(g) ==
    IF g.win # << >> /\ g.win[1].index < g.index THEN g.win ELSE << >>

first_win(g) ==
    IF g.win # << >> /\ g.win[1].index <= g.index THEN g.win ELSE << >>

\* fault: make_move keeping any win it has recorded
win_after_cached(w, idx, mat, p) ==
    IF w = << >>
    THEN LET win_row == find_win_row(mat, p)
         IN  IF win_row # << >>
             THEN <<[index |-> idx, row |-> win_row[1]]>>
             ELSE << >>
    ELSE w

\* fault: make_move recording a win under the cursor after the move
win_after_late(w, idx, mat, p) ==
    IF w = << >> \/ w[1].index >= idx
    THEN LET win_row == find_win_row(mat, p)
         IN  IF win_row # << >>
             THEN <<[index |-> idx + 1, row |-> win_row[1]]>>
             ELSE << >>
    ELSE w

\* fault: the staleness test of make_move with `>` for `>=`
win_after_strict(w, idx, mat, p) ==
    IF w = << >> \/ w[1].index > idx
    THEN LET win_row == find_win_row(mat, p)
         IN  IF win_row # << >>
             THEN <<[index |-> idx, row |-> win_row[1]]>>
             ELSE << >>
    ELSE w

\* lines 219-224 of make_move: the win record after a move at p that made
\* the cursor idx and the board mat
win_after(w, idx, mat, p) ==
    IF w = << >> \/ w[1].index >= idx
    THEN LET win_row == find_win_row(mat, p)
         IN  IF win_row # << >>
             THEN <<[index |-> idx, row |-> win_row[1]]>>
             ELSE << >>
    ELSE w

\* fault: make_move testing the point against all of `moves`, future moves
\* included, for `board.at(p)`
make_move_ledger(g, p, stone) ==
    IF ~in_board(p)
    THEN [g |-> g, ret |-> "throws"]
    ELSE IF \E k \in 1 .. Len(g.moves) : g.moves[k].pos = p
    THEN [g |-> g, ret |-> "false"]
    ELSE LET b == set(g.board, p, stone)
             ms == Append(SubSeq(g.moves, 1, g.index), Move(p, stone))
             idx == g.index + 1
         IN  [g |-> [board |-> b, moves |-> ms, index |-> idx,
                     win |-> win_after(g.win, idx, b, p)],
              ret |-> "true"]

\* fault: make_move without the test that the cell is empty
make_move_unchecked(g, p, stone) ==
    IF ~in_board(p)
    THEN [g |-> g, ret |-> "throws"]
    ELSE LET b == set(g.board, p, stone)
             ms == Append(SubSeq(g.moves, 1, g.index), Move(p, stone))
             idx == g.index + 1
         IN  [g |-> [board |-> b, moves |-> ms, index |-> idx,
                     win |-> win_after(g.win, idx, b, p)],
              ret |-> "true"]

\* fault: make_move without `moves.resize(index)`
make_move_keep_future(g, p, stone) ==
    IF ~in_board(p)
    THEN [g |-> g, ret |-> "throws"]
    ELSE IF at(g.board, p) # None
    THEN [g |-> g, ret |-> "false"]
    ELSE LET b == set(g.board, p, stone)
             ms == Append(g.moves, Move(p, stone))
             idx == g.index + 1
         IN  [g |-> [board |-> b, moves |-> ms, index |-> idx,
                     win |-> win_after(g.win, idx, b, p)],
              ret |-> "true"]

\* fault: make_move recording a win under the cursor before the move
make_move_win_index(g, p, stone) ==
    IF ~in_board(p)
    THEN [g |-> g, ret |-> "throws"]
    ELSE IF at(g.board, p) # None
    THEN [g |-> g, ret |-> "false"]
    ELSE LET b == set(g.board, p, stone)
             ms == Append(SubSeq(g.moves, 1, g.index), Move(p, stone))
             idx == g.index + 1
         IN  [g |-> [board |-> b, moves |-> ms, index |-> idx,
                     win |-> win_after(g.win, g.index, b, p)],
              ret |-> "true"]

\* fault: make_move answering false for a point out of the board
make_move_out_false(g, p, stone) ==
    IF ~in_board(p) \/ at(g.board, p) # None
    THEN [g |-> g, ret |-> "false"]
    ELSE LET b == set(g.board, p, stone)
             ms == Append(SubSeq(g.moves, 1, g.index), Move(p, stone))
             idx == g.index + 1
         IN  [g |-> [board |-> b, moves |-> ms, index |-> idx,
                     win |-> win_after(g.win, idx, b, p)],
              ret |-> "true"]

make_move(g, p, stone) ==
    IF ~in_board(p)
    THEN [g |-> g, ret |-> "throws"]
    ELSE IF at(g.board, p) # None
    THEN [g |-> g, ret |-> "false"]
    ELSE LET b == set(g.board, p, stone)
             ms == Append(SubSeq(g.moves, 1, g.index), Move(p, stone))
             idx == g.index + 1
         IN  [g |-> [board |-> b, moves |-> ms, index |-> idx,
                     win |-> win_after(g.win, idx, b, p)],
              ret |-> "true"]

\* fault: undo with `index <= 1` for `index == 0`
undo_keep_first(g) ==
    IF g.index <= 1
    THEN [g |-> g, ret |-> "false"]
    ELSE LET idx == g.index - 1
             last == g.moves[idx + 1]
         IN  [g |-> [g EXCEPT !.index = idx,
                              !.board = unset(g.board, last.pos)],
              ret |-> "true"]

\* fault: undo without `board.unset(last.pos)`
undo_no_unset(g) ==
    IF g.index = 0
    THEN [g |-> g, ret |-> "false"]
    ELSE [g |-> [g EXCEPT !.index = g.index - 1], ret |-> "true"]

\* fault: undo that also removes the last of the moves
undo_pop(g) ==
    IF g.index = 0
    THEN [g |-> g, ret |-> "false"]
    ELSE LET idx == g.index - 1
             last == g.moves[idx + 1]
         IN  [g |-> [g EXCEPT !.index = idx,
                              !.board = unset(g.board, last.pos),
                              !.moves = SubSeq(g.moves, 1, Len(g.moves) - 1)],
              ret |-> "true"]

undo(g) ==
    IF g.index = 0
    THEN [g |-> g, ret |-> "false"]
    ELSE LET idx == g.index - 1
             last == g.moves[idx + 1]
         IN  [g |-> [g EXCEPT !.index = idx,
                              !.board = unset(g.board, last.pos)],
              ret |-> "true"]

\* fault: redo setting the stone of the other colour
redo_opposite(g) ==
    IF g.index >= Len(g.moves)
    THEN [g |-> g, ret |-> "false"]
    ELSE LET next == g.moves[g.index + 1]
         IN  [g |-> [g EXCEPT !.index = g.index + 1,
                              !.board = set(g.board, next.pos,
                                            opposite(next.stone))],
              ret |-> "true"]

\* fault: redo without `index += 1`
redo_no_advance(g) ==
    IF g.index >= Len(g.moves)
    THEN [g |-> g, ret |-> "false"]
    ELSE LET next == g.moves[g.index + 1]
         IN  [g |-> [g EXCEPT !.board = set(g.board, next.pos, next.stone)],
              ret |-> "true"]

redo(g) ==
    IF g.index >= Len(g.moves)
    THEN [g |-> g, ret |-> "false"]
    ELSE LET next == g.moves[g.index + 1]
         IN  [g |-> [g EXCEPT !.index = g.index + 1,
                              !.board = set(g.board, next.pos, next.stone)],
              ret |-> "true"]

\* fault: the backward loop of jump ending one move early
RECURSIVE jump_back_short(_, _, _, _)
jump_back_short(mat, moves, i, to_index) ==
    IF i > to_index + 1
    THEN jump_back_short(unset(mat, moves[i].pos), moves, i - 1, to_index)
    ELSE mat

\* `for (usize i = index; i > to_index; i--)` of jump: unsets moves.at(i - 1)
RECURSIVE jump_back(_, _, _, _)
jump_back(mat, moves, i, to_index) ==
    IF i > to_index
    THEN jump_back(unset(mat, moves[i].pos), moves, i - 1, to_index)
    ELSE mat

\* fault: jump forwards setting the stone of the last move crossed only
jump_forth_last(mat, moves, i, to_index) ==
    IF i < to_index
    THEN set(mat, moves[to_index].pos, moves[to_index].stone)
    ELSE mat

\* `for (usize i = index; i < to_index; i++)` of jump: sets moves.at(i)
RECURSIVE jump_forth(_, _, _, _)
jump_forth(mat, moves, i, to_index) ==
    IF i < to_index
    THEN jump_forth(set(mat, moves[i + 1].pos, moves[i + 1].stone),
                    moves, i + 1, to_index)
    ELSE mat

\* fault: the range test of jump with `>=` for `>`
jump_strict_range(g, to_index) ==
    IF to_index >= Len(g.moves)
    THEN [g |-> g, ret |-> "throws"]
    ELSE IF g.index = to_index
    THEN [g |-> g, ret |-> "false"]
    ELSE LET b == IF g.index > to_index
                  THEN jump_back(g.board, g.moves, g.index, to_index)
                  ELSE jump_forth(g.board, g.moves, g.index, to_index)
         IN  [g |-> [g EXCEPT !.index = to_index, !.board = b],
              ret |-> "true"]

jump(g, to_index) ==
    IF to_index > Len(g.moves)
    THEN [g |-> g, ret |-> "throws"]
    ELSE IF g.index = to_index
    THEN [g |-> g, ret |-> "false"]
    ELSE LET b == IF g.index > to_index
                  THEN jump_back(g.board, g.moves, g.index, to_index)
                  ELSE jump_forth(g.board, g.moves, g.index, to_index)
         IN  [g |-> [g EXCEPT !.index = to_index, !.board = b],
              ret |-> "true"]

\* fault: infer_turn reading the last of all the moves, `moves.back()`
infer_turn_back(g) ==
    IF g.index = 0 THEN Black ELSE opposite(g.moves[Len(g.moves)].stone)

\* Game::infer_turn: `moves.at(index - 1)` is the last of the past moves
infer_turn(g) ==
    IF g.index = 0 THEN Black ELSE opposite(g.moves[g.index].stone)

(***************************************************************************)
(* Serialization.  A QByteArray is a sequence of bytes 0 .. 255; an        *)
(* optional<Game> that may also fail by an exception is a record with ret  *)
(* "value", "nullopt" or "throws" and val << >> or <<game>>.               *)
(***************************************************************************)
BEGIN_SEQUENCE == 255

END_SEQUENCE == 254

\* fault: the byte of a position computed as x * BOARD_SIZE + y
cell_byte_transposed(pos) == (pos.x * BOARD_SIZE + pos.y) % 256

\* `buf.append(pos.y * BOARD_SIZE + pos.x)`: the product narrowed to a char,
\* which the decoder reads back as a u8
cell_byte(pos) == (pos.y * BOARD_SIZE + pos.x) % 256

\* fault: insert placing the byte after position i instead of before it
insert_after(buf, i, c) ==
    IF i < 0
    THEN buf
    ELSE SubSeq(buf, 1, i + 1) \o <<c>> \o SubSeq(buf, i + 2, Len(buf))

\* QByteArray::insert(i, c) for 0 <= i <= size; serialize calls it with
\* i = size - 1 and a buffer that holds a byte (last_stone = stone is
\* false at the first move, whose last_stone is None), so i >= 0
insert(buf, i, c) ==
    IF i < 0
    THEN buf
    ELSE SubSeq(buf, 1, i) \o <<c>> \o SubSeq(buf, i + 1, Len(buf))

\* the loop of serialize from the i-th of the moves ms on
RECURSIVE serialize_loop(_, _, _, _, _)
serialize_loop(ms, i, buf, last_stone, in_sequence) ==
    IF i > Len(ms)
    THEN [buf |-> buf, in_sequence |-> in_sequence]
    ELSE LET pos == ms[i].pos
             stone == ms[i].stone
             marked ==
                 IF last_stone = stone
                 THEN IF ~in_sequence
                      THEN insert(buf, Len(buf) - 1, BEGIN_SEQUENCE)
                      ELSE buf
                 ELSE IF in_sequence
                      THEN Append(buf, END_SEQUENCE)
                      ELSE buf
         IN  serialize_loop(ms, i + 1, Append(marked, cell_byte(pos)), stone,
                            last_stone = stone)

\* fault: serialize without the empty sequence before a first White move
serialize_no_head(g) ==
    LET r == serialize_loop(past_moves(g), 1, << >>, None, FALSE)
    IN  IF r.in_sequence THEN Append(r.buf, END_SEQUENCE) ELSE r.buf

\* fault: serialize walking all the moves instead of past_moves()
serialize_all(g) ==
    LET ms == g.moves
        head == IF ms # << >> /\ ms[1].stone = White
                THEN <<BEGIN_SEQUENCE, END_SEQUENCE>>
                ELSE << >>
        r == serialize_loop(ms, 1, head, None, FALSE)
    IN  IF r.in_sequence THEN Append(r.buf, END_SEQUENCE) ELSE r.buf

serialize(g) ==
    LET ms == past_moves(g)
        head == IF ms # << >> /\ ms[1].stone = White
                THEN <<BEGIN_SEQUENCE, END_SEQUENCE>>
                ELSE << >>
        r == serialize_loop(ms, 1, head, None, FALSE)
    IN  IF r.in_sequence THEN Append(r.buf, END_SEQUENCE) ELSE r.buf

\* what the loop of deserialize has in hand after a byte: whether it goes
\* on ("value") or has left by `return nullopt` or by an exception, the
\* local game, the stone to play and in_sequence
Decoded(ret, g, stone, in_sequence) ==
    [ret |-> ret, g |-> g, stone |-> stone, in_sequence |-> in_sequence]

\* fault: a make_move that returned false passed over, the loop going on
deserialize_moved_skipping(r, g, stone, in_sequence) ==
    IF r.ret = "throws"
    THEN Decoded("throws", g, stone, in_sequence)
    ELSE IF r.ret = "false"
    THEN Decoded("value", g, stone, in_sequence)
    ELSE Decoded("value", r.g,
                 IF in_sequence THEN stone ELSE opposite(stone), in_sequence)

\* lines 327-330 of deserialize after `game.make_move(pos, stone)` has
\* ended as r: an exception leaves deserialize, false is `return nullopt`,
\* true changes the stone outside a sequence
deserialize_moved(r, g, stone, in_sequence) ==
    IF r.ret = "throws"
    THEN Decoded("throws", g, stone, in_sequence)
    ELSE IF r.ret = "false"
    THEN Decoded("nullopt", g, stone, in_sequence)
    ELSE Decoded("value", r.g,
                 IF in_sequence THEN stone ELSE opposite(stone), in_sequence)

\* `Point pos(byte % BOARD_SIZE, byte / BOARD_SIZE)`
byte_pos(byte) == Point(byte % BOARD_SIZE, byte \div BOARD_SIZE)

\* fault: the body of the loop without the `!in_board(pos)` test
deserialize_byte_unchecked(byte, g, stone, in_sequence) ==
    IF byte = BEGIN_SEQUENCE
    THEN IF in_sequence
         THEN Decoded("nullopt", g, stone, in_sequence)
         ELSE Decoded("value", g, stone, TRUE)
    ELSE IF byte = END_SEQUENCE
    THEN IF ~in_sequence
         THEN Decoded("nullopt", g, stone, in_sequence)
         ELSE Decoded("value", g, opposite(stone), FALSE)
    ELSE deserialize_moved(make_move(g, byte_pos(byte), stone),
                           g, stone, in_sequence)

\* the body of `for (u8 byte : buf)` of deserialize for one byte, with the
\* local game g, the current stone and in_sequence
deserialize_byte(byte, g, stone, in_sequence) ==
    IF byte = BEGIN_SEQUENCE
    THEN IF in_sequence
         THEN Decoded("nullopt", g, stone, in_sequence)
         ELSE Decoded("value", g, stone, TRUE)
    ELSE IF byte = END_SEQUENCE
    THEN IF ~in_sequence
         THEN Decoded("nullopt", g, stone, in_sequence)
         ELSE Decoded("value", g, opposite(stone), FALSE)
    ELSE IF ~in_board(byte_pos(byte))
    THEN Decoded("nullopt", g, stone, in_sequence)
    ELSE deserialize_moved(make_move(g, byte_pos(byte), stone),
                           g, stone, in_sequence)

\* `for (u8 byte : buf)` of deserialize from the i-th byte on;
\* deserialize_next goes on after a byte that has left the loop's state r
RECURSIVE deserialize_loop(_, _, _, _, _)
RECURSIVE deserialize_next(_, _, _)
deserialize_next(buf, i, r) ==
    IF r.ret # "value"
    THEN r
    ELSE deserialize_loop(buf, i + 1, r.g, r.stone, r.in_sequence)

deserialize_loop(buf, i, g, stone, in_sequence) ==
    IF i > Len(buf)
    THEN Decoded("value", g, stone, in_sequence)
    ELSE deserialize_next(buf, i,
                          deserialize_byte(buf[i], g, stone, in_sequence))

\* fault: the game returned although a sequence is open at the end
deserialize_end_open(r) ==
    IF r.ret = "value"
    THEN [ret |-> "value", val |-> <<r.g>>]
    ELSE IF r.ret = "throws"
    THEN [ret |-> "throws", val |-> << >>]
    ELSE [ret |-> "nullopt", val |-> << >>]

\* lines 333-335 of deserialize, after the loop has ended as r
deserialize_end(r) ==
    IF r.ret = "value" /\ ~r.in_sequence
    THEN [ret |-> "value", val |-> <<r.g>>]
    ELSE IF r.ret = "throws"
    THEN [ret |-> "throws", val |-> << >>]
    ELSE [ret |-> "nullopt", val |-> << >>]

deserialize(buf) ==
    deserialize_end(deserialize_loop(buf, 1, NewGame, Black, FALSE))

(***************************************************************************)
(* BoardWidget::import_game of main.cpp.  The text of the clipboard is     *)
(* given by what the calls of Qt on it answer: whether it starts with      *)
(* URI_PREFIX, whether what follows the prefix ends with '/', and the      *)
(* bytes that fromBase64Encoding decodes from the rest, if it decodes any. *)
(* The outcome names the exit taken.                                       *)
(***************************************************************************)
\* BoardWidget after construction: `Stone stone = Stone::Black`, and the
\* checkable actions not checked
NewWidget == [stone |-> Black, stone_locked |-> FALSE, reviewing |-> FALSE]

\* fault: game_updated without the test of the lock
game_updated_unlocked(w, g) == [w EXCEPT !.stone = infer_turn(g)]

\* BoardWidget::game_updated, of which the title and the repaint are left
\* out: the widget w after it, the game being g
game_updated(w, g) ==
    IF ~w.stone_locked THEN [w EXCEPT !.stone = infer_turn(g)] ELSE w

\* the widget after a handler that calls game_updated if the call r on the
\* game returned true
updated_if(w, r) == IF r.ret = "true" THEN game_updated(w, r.g) ELSE w

\* BoardWidget::mousePressEvent with the left button: p is what to_game_pos
\* returns, << >> for a position off the board, and yes the answer of the
\* user to confirm(); the game after it and the exit taken, "true" being
\* the one that reaches game_updated()
mousePressEvent(g, w, p, yes) ==
    IF w.reviewing
    THEN [g |-> g, ret |-> "reviewing"]
    ELSE IF p = << >>
    THEN [g |-> g, ret |-> "off board"]
    ELSE IF future_moves(g) # << >> /\ ~yes
    THEN [g |-> g, ret |-> "declined"]
    ELSE make_move(g, p[1], w.stone)

\* BoardWidget::wheelEvent
wheelEvent(g, w, forward) ==
    IF ~w.reviewing
    THEN [g |-> g, ret |-> "playing"]
    ELSE IF forward THEN redo(g) ELSE undo(g)

\* BoardWidget::pass
pass(w) == [w EXCEPT !.stone = opposite(w.stone)]

\* Game::operator==, which compares the moves and the index
game_equal(g, h) == g.moves = h.moves /\ g.index = h.index

\* fault: import_game without the question to the user
import_decoded_unasked(g, r, yes) ==
    IF r.ret # "value"
    THEN [g |-> g, ret |-> "no game"]
    ELSE IF ~game_equal(g, r.val[1])
    THEN [g |-> r.val[1], ret |-> "imported"]
    ELSE [g |-> g, ret |-> "same"]

\* import_game from `if (auto res = Game::deserialize(*data))` on: r is
\* what deserialize returned, yes the answer of the user to confirm()
import_decoded(g, r, yes) ==
    IF r.ret # "value"
    THEN [g |-> g, ret |-> "no game"]
    ELSE IF total_moves(g) # 0 /\ ~yes
    THEN [g |-> g, ret |-> "declined"]
    ELSE IF ~game_equal(g, r.val[1])
    THEN [g |-> r.val[1], ret |-> "imported"]
    ELSE [g |-> g, ret |-> "same"]

\* the widget after import_game took the exit r.ret and left the game r.g:
\* game_updated() if the game was replaced, and
\* review_act->setChecked(true) if a game was decoded and not declined
import_widget(w, r) ==
    IF r.ret = "imported"
    THEN [game_updated(w, r.g) EXCEPT !.reviewing = TRUE]
    ELSE IF r.ret = "same"
    THEN [w EXCEPT !.reviewing = TRUE]
    ELSE w

import_game(g, text, yes) ==
    IF ~text.prefix
    THEN [g |-> g, ret |-> "no prefix"]
    ELSE IF ~text.slash
    THEN [g |-> g, ret |-> "no slash"]
    ELSE IF text.data = << >>
    THEN [g |-> g, ret |-> "no base64"]
    ELSE import_decoded(g, deserialize(text.data[1]), yes)

(***************************************************************************)
(* binary.hpp.  A u32 and an i32 are both written as the integer that the  *)
(* 32 bits are in two's complement, as for the coordinates of a Point; a   *)
(* conversion between the two keeps the bits.  The operators of C++ on     *)
(* them are computed bit by bit.                                           *)
(***************************************************************************)
\* bit i of the word a; for a negative a the division rounds down, which
\* gives the bits of two's complement
Bit(a, i) == IF i = 31 THEN (IF a < 0 THEN 1 ELSE 0) ELSE (a \div (2 ^ i)) % 2

\* the number that the bits i .. 30 of f make
RECURSIVE LowBits(_, _)
LowBits(f, i) == IF i > 30 THEN 0 ELSE f[i] * (2 ^ i) + LowBits(f, i + 1)

\* the word with the bits f[0] .. f[31]
Word(f) == IF f[31] = 1 THEN (LowBits(f, 0) - I32_MAX) - 1 ELSE LowBits(f, 0)

\* a & b
u32_and(a, b) == Word([i \in 0 .. 31 |-> Bit(a, i) * Bit(b, i)])

\* a | b
u32_or(a, b) ==
    Word([i \in 0 .. 31 |-> IF Bit(a, i) + Bit(b, i) > 0 THEN 1 ELSE 0])

\* a ^ b
u32_xor(a, b) == Word([i \in 0 .. 31 |-> (Bit(a, i) + Bit(b, i)) % 2])

\* a << k, the bits shifted out are lost
u32_shl(a, k) == Word([i \in 0 .. 31 |-> IF i >= k THEN Bit(a, i - k) ELSE 0])

\* a >> k of an unsigned a: zeros come in
u32_shr(a, k) ==
    Word([i \in 0 .. 31 |-> IF i + k <= 31 THEN Bit(a, i + k) ELSE 0])

\* a >> k of a signed a: copies of the sign bit come in
i32_sar(a, k) ==
    Word([i \in 0 .. 31 |-> IF i + k <= 31 THEN Bit(a, i + k) ELSE Bit(a, 31)])

\* -a of an unsigned a, modulo 2^32
u32_neg(a) == IF a = (-I32_MAX) - 1 THEN a ELSE -a

\* fault: zigzag_encode with the shift of an unsigned x
zigzag_encode_logical(x) == u32_xor(u32_shl(x, 1), u32_shr(x, 31))

\* `(x << 1) ^ (x >> 31)` of an i32 x, converted to u32
zigzag_encode(x) == u32_xor(u32_shl(x, 1), i32_sar(x, 31))

\* fault: zigzag_decode without the sign
zigzag_decode_unsigned(x) == u32_shr(x, 1)

\* `(x >> 1) ^ -(x & 1)` of a u32 x, converted to i32
zigzag_decode(x) == u32_xor(u32_shr(x, 1), u32_neg(u32_and(x, 1)))

\* `x = (x | (x << k)) & mask`, a step of scatter
spread(x, k, mask) == u32_and(u32_or(x, u32_shl(x, k)), mask)

\* `x = (x | (x >> k)) & mask`, a step of gather
squeeze(x, k, mask) == u32_and(u32_or(x, u32_shr(x, k)), mask)

\* the lambda scatter of interleave
scatter(x) ==
    spread(spread(spread(spread(x, 8, \h00ff00ff), 4, \h0f0f0f0f),
                  2, \h33333333),
           1, \h55555555)

\* the lambda gather of deinterleave
gather(x) ==
    squeeze(squeeze(squeeze(squeeze(u32_and(x, \h55555555), 1, \h33333333),
                            2, \h0f0f0f0f),
                    4, \h00ff00ff),
            8, \h0000ffff)

\* fault: interleave with x and y in each other's places
interleave_swapped(x, y) == u32_or(scatter(y), u32_shl(scatter(x), 1))

interleave(x, y) == u32_or(scatter(x), u32_shl(scatter(y), 1))

\* a pair<u32, u32> is a sequence of two
deinterleave(i) == <<gather(i), gather(u32_shr(i, 1))>>

\* the conversion of an integer to the char that QByteArray::append takes,
\* kept as the byte 0 .. 255 the array holds
to_byte(x) == x % 256

\* the char read from a byte of the array, promoted to int: a char is
\* signed here, and the bits tested are the same where it is not
to_char(byte) == IF byte >= 128 THEN byte - 256 ELSE byte

\* fault: write_var_u14 testing the bits 8 to 13 only
write_var_u14_wide(buf, val) ==
    IF u32_and(val, \h3f00) # 0
    THEN Append(Append(buf, to_byte(u32_or(u32_and(val, \h7f), \h80))),
                to_byte(u32_and(u32_shr(val, 7), \h7f)))
    ELSE Append(buf, to_byte(u32_and(val, \h7f)))

\* write_var_u14: the array buf after the call
write_var_u14(buf, val) ==
    IF u32_and(val, \h3f80) # 0
    THEN Append(Append(buf, to_byte(u32_or(u32_and(val, \h7f), \h80))),
                to_byte(u32_and(u32_shr(val, 7), \h7f)))
    ELSE Append(buf, to_byte(u32_and(val, \h7f)))

\* the outcome of read_var_u14: the optional<u32> returned and the offset
\* `read` after the call
Read(ret, val, read) == [ret |-> ret, val |-> val, read |-> read]

\* read_var_u14 with the first byte at offset read, which is buf[read + 1]
\* here, where a sequence starts at 1
read_var_u14(buf, read) ==
    IF read >= Len(buf)
    THEN Read("nullopt", << >>, read)
    ELSE IF u32_and(to_char(buf[read + 1]), \h80) = 0
    THEN Read("value",
              <<u32_or(u32_shl(0, 7), u32_and(to_char(buf[read + 1]), \h7f))>>,
              read + 1)
    ELSE IF read + 1 >= Len(buf)
    THEN Read("nullopt", << >>, read + 1)
    ELSE IF u32_and(to_char(buf[read + 2]), \h80) # 0
    THEN Read("nullopt", << >>, read + 2)
    ELSE Read("value",
              <<u32_or(u32_shl(to_char(buf[read + 2]), 7),
                       u32_and(to_char(buf[read + 1]), \h7f))>>,
              read + 2)

(***************************************************************************)
(* The code of a move in the stream of coordinates and players, which the  *)
(* functions of binary.hpp are for: the offsets of x and y from the middle *)
(* of the board in zigzag, interleaved, shifted left by one, with          *)
(* player - 1 as the low bit.                                              *)
(***************************************************************************)
\* the coordinate of the middle of the board
Middle == BOARD_SIZE \div 2

encode_move(p, stone) ==
    u32_or(u32_shl(interleave(zigzag_encode(p.x - Middle),
                              zigzag_encode(p.y - Middle)), 1),
           stone - 1)

decode_move(code) ==
    [pos |-> [x |-> zigzag_decode(deinterleave(u32_shr(code, 1))[1]) + Middle,
              y |-> zigzag_decode(deinterleave(u32_shr(code, 1))[2]) + Middle],
     stone |-> u32_and(code, 1) + 1]

(***************************************************************************)
(* The state machine: one Game, driven through its public operations.      *)
(* `call` records the latest call: the operation, its outcome, and the     *)
(* cursor, the number of moves and the win record it found.  `buf` is the  *)
(* byte array that deserialize is given and serialize returns.  `val`      *)
(* holds the integers given to and returned by the functions of            *)
(* binary.hpp, and `read` the offset into buf that read_var_u14 advances.  *)
(* `widget` holds the fields of BoardWidget besides its game: the stone to *)
(* place and whether lock_stone_act and review_act are checked.            *)
(***************************************************************************)
VARIABLES board, moves, index, win, call, buf, val, read, widget

vars == <<board, moves, index, win, call, buf, val, read, widget>>

game == [board |-> board, moves |-> moves, index |-> index, win |-> win]

\* points outside the board: x too large, y too large, and x = 4294967295
OutPoints ==
    {Point(BOARD_SIZE, Origin.y), Point(Origin.x, BOARD_SIZE), Point(-1, Origin.y)}

BlockPoints ==
    {Point(Origin.x + (k % 2), Origin.y + (k \div 2)) : k \in 0 .. (BlockCells - 1)}

RowPoints == {Point(Origin.x + k, Origin.y) : k \in 0 .. (RowCells - 1)}

\* the moves offered to make_move by Spec and by SpecRow
BlockMoves ==
    {Move(p, stone) : p \in BlockPoints \cup OutPoints, stone \in {Black, White}}

RowMoves == {Move(p, Black) : p \in RowPoints}

\* the indexes offered to jump: every index of the ledger and one past it
InIndexes == 0 .. (Len(moves) + 1)

Becomes(r, op) ==
    /\ board' = r.g.board
    /\ moves' = r.g.moves
    /\ index' = r.g.index
    /\ win' = r.g.win
    /\ call' = [op |-> op, ret |-> r.ret,
                index |-> index, total |-> Len(moves), win |-> win]
    /\ buf' = buf
    /\ val' = val
    /\ read' = read
    /\ widget' = widget

Init ==
    /\ board = NewGame.board
    /\ moves = NewGame.moves
    /\ index = NewGame.index
    /\ win = NewGame.win
    /\ call = [op |-> "new", ret |-> "true",
               index |-> 0, total |-> 0, win |-> << >>]
    /\ buf = << >>
    /\ val = << >>
    /\ read = 0
    /\ widget = NewWidget

MakeMove(p, stone) == Becomes(make_move(game, p, stone), "make_move")

Undo == Becomes(undo(game), "undo")

Redo == Becomes(redo(game), "redo")

Jump(to_index) == Becomes(jump(game, to_index), "jump")

Next ==
    \/ \E m \in BlockMoves : MakeMove(m.pos, m.stone)
    \/ Undo
    \/ Redo
    \/ \E to_index \in InIndexes : Jump(to_index)

Spec == Init /\ [][Next]_vars

NextRow ==
    \/ \E m \in RowMoves : MakeMove(m.pos, m.stone)
    \/ Undo
    \/ Redo
    \/ \E to_index \in InIndexes : Jump(to_index)

SpecRow == Init /\ [][NextRow]_vars

\* The bytes offered to deserialize: the two control bytes, the bytes of
\* the block's cells, and the first and the last byte that is neither a
\* control byte nor a cell of the board.
InBytes ==
    {BEGIN_SEQUENCE, END_SEQUENCE, BOARD_SIZE * BOARD_SIZE, END_SEQUENCE - 1}
        \cup {cell_byte(p) : p \in BlockPoints}

\* a sequence of n Black moves along the row: BEGIN_SEQUENCE, the bytes of
\* the first n cells of the row, END_SEQUENCE
RowBuf(n) ==
    <<BEGIN_SEQUENCE>> \o [k \in 1 .. n |-> cell_byte(Point(Origin.x + k - 1, Origin.y))]
        \o <<END_SEQUENCE>>

\* the byte arrays offered to deserialize: every sequence of up to MaxBytes
\* of the bytes above, and the sequences of Black moves along the row
InBufs ==
    UNION {[1 .. n -> InBytes] : n \in 0 .. MaxBytes}
        \cup {RowBuf(n) : n \in 1 .. RowCells}

\* a new game and a byte array from outside
InitBytes ==
    /\ board = NewGame.board
    /\ moves = NewGame.moves
    /\ index = NewGame.index
    /\ win = NewGame.win
    /\ call = [op |-> "new", ret |-> "true",
               index |-> 0, total |-> 0, win |-> << >>]
    /\ buf \in InBufs
    /\ val = << >>
    /\ read = 0
    /\ widget = NewWidget

\* Game::deserialize(buf); as import_game does, the caller takes the game
\* returned, if one is, for its game
Deserialize ==
    LET r == deserialize(buf)
    IN  Becomes([g |-> IF r.ret = "value" THEN r.val[1] ELSE game,
                 ret |-> r.ret], "deserialize")

\* game.serialize(), a const member: the bytes returned become buf
Serialize ==
    /\ buf' = serialize(game)
    /\ call' = [op |-> "serialize", ret |-> "true",
                index |-> index, total |-> Len(moves), win |-> win]
    /\ UNCHANGED <<board, moves, index, win, widget, val, read>>

NextBytes ==
    \/ Deserialize
    \/ Serialize
    \/ Undo

SpecBytes == InitBytes /\ [][NextBytes]_vars

\* the game after make_move(ms[i].pos, ms[i].stone) for i = 1 .. n, called
\* in that order on a new game
RECURSIVE Played(_, _)
Played(ms, n) ==
    IF n = 0
    THEN NewGame
    ELSE make_move(Played(ms, n - 1), ms[n].pos, ms[n].stone).g

\* the point k steps from p along the axis (k < 0: backwards)
Along(p, axis, k) ==
    Point(p.x + k * unit_vec(axis)[1], p.y + k * unit_vec(axis)[2])

\* Black moves on the `back` cells before and the `fwd` cells after the
\* point p along the axis
ArmMoves(p, axis, back, fwd) ==
    [k \in 1 .. back |-> Move(Along(p, axis, -k), Black)]
        \o [k \in 1 .. fwd |-> Move(Along(p, axis, k), Black)]

\* the lengths of the two arms of an axis: any number of stones up to
\* MaxArm before the cell, MaxArm or one less after it, so that the runs
\* through the cell have MaxArm to 2 * MaxArm + 1 stones
Arms == (0 .. MaxArm) \X ((MaxArm - 1) .. MaxArm)

\* A game of make_move calls that has put Black stones around Origin, an
\* arm before and an arm after it along each of the four axes, and has
\* left Origin empty.
InitScan ==
    \E arms \in [1 .. Len(AXES) -> Arms] :
        LET ms == ArmMoves(Origin, AXES[1], arms[1][1], arms[1][2])
                      \o ArmMoves(Origin, AXES[2], arms[2][1], arms[2][2])
                      \o ArmMoves(Origin, AXES[3], arms[3][1], arms[3][2])
                      \o ArmMoves(Origin, AXES[4], arms[4][1], arms[4][2])
            g == Played(ms, Len(ms))
        IN  /\ board = g.board
            /\ moves = g.moves
            /\ index = g.index
            /\ win = g.win
            /\ call = [op |-> "new", ret |-> "true",
                       index |-> 0, total |-> 0, win |-> << >>]
            /\ buf = << >>
            /\ val = << >>
            /\ read = 0
            /\ widget = NewWidget

\* make_move at Origin, which runs find_win_row(Origin)
NextScan == \E stone \in {Black, White} : MakeMove(Origin, stone)

SpecScan == InitScan /\ [][NextScan]_vars

\* the corner of the board whose coordinates are both 0
Corner == Point(0, 0)

\* Cells beside the edges: the neighbours of Corner, the last cell of the
\* first row (one before (0, 1) in `mat`), the last cell of the first
\* column, and more cells of the first row and of the last column.
EdgeList ==
    <<Point(1, 0), Point(0, 1), Point(1, 1), Point(BOARD_SIZE - 1, 0),
      Point(0, BOARD_SIZE - 1), Point(2, 0), Point(BOARD_SIZE - 1, 1),
      Point(BOARD_SIZE - 1, BOARD_SIZE - 1)>>

IsStone(m) == m.stone # None

\* A game of make_move calls that has put a Black stone, a White stone or
\* nothing on each of the first EdgeCells cells of EdgeList, and has left
\* Corner empty.
InitEdge ==
    \E stones \in [1 .. EdgeCells -> {None, Black, White}] :
        LET ms == SelectSeq([i \in 1 .. EdgeCells |->
                                Move(EdgeList[i], stones[i])], IsStone)
            g == Played(ms, Len(ms))
        IN  /\ board = g.board
            /\ moves = g.moves
            /\ index = g.index
            /\ win = g.win
            /\ call = [op |-> "new", ret |-> "true",
                       index |-> 0, total |-> 0, win |-> << >>]
            /\ buf = << >>
            /\ val = << >>
            /\ read = 0
            /\ widget = NewWidget

\* make_move at Corner, which runs scan_row from a cell with x = 0, y = 0
NextEdge == \E stone \in {Black, White} : MakeMove(Corner, stone)

SpecEdge == InitEdge /\ [][NextEdge]_vars

\* the cell of Origin's row in column k
LinePoint(k) == Point(k, Origin.y)

\* A game of make_move calls that has put a Black stone, a White stone or
\* nothing on each of the first LineCells cells of Origin's row, from the
\* left edge of the board on.
InitLine ==
    \E stones \in [1 .. LineCells -> {None, Black, White}] :
        LET ms == SelectSeq([i \in 1 .. LineCells |->
                                Move(LinePoint(i - 1), stones[i])], IsStone)
            g == Played(ms, Len(ms))
        IN  /\ board = g.board
            /\ moves = g.moves
            /\ index = g.index
            /\ win = g.win
            /\ call = [op |-> "new", ret |-> "true",
                       index |-> 0, total |-> 0, win |-> << >>]
            /\ buf = << >>
            /\ val = << >>
            /\ read = 0
            /\ widget = NewWidget

\* make_move on the next cell of the row
NextLine == \E stone \in {Black, White} : MakeMove(LinePoint(LineCells), stone)

SpecLine == InitLine /\ [][NextLine]_vars

\* the moves of SpecPlay: either stone on the PlayCells cells from Origin on
PlayMoves ==
    {Move(Point(Origin.x + k, Origin.y), stone) :
        k \in 0 .. (PlayCells - 1), stone \in {Black, White}}

\* make_move calls only, from the empty game
NextPlay == \E m \in PlayMoves : MakeMove(m.pos, m.stone)

SpecPlay == Init /\ [][NextPlay]_vars

\* the record of a call of a function of binary.hpp: here index is the
\* offset `read` and total the size of buf that the call found
Called(op, ret) ==
    [op |-> op, ret |-> ret, index |-> read, total |-> Len(buf),
     win |-> << >>]

\* the state of the game and the values val, at the start
InitVal(vs) ==
    /\ board = NewGame.board
    /\ moves = NewGame.moves
    /\ index = NewGame.index
    /\ win = NewGame.win
    /\ call = [op |-> "new", ret |-> "true",
               index |-> 0, total |-> 0, win |-> << >>]
    /\ val = vs
    /\ widget = NewWidget

\* the i32 values given to zigzag_encode: the small ones of either sign
\* and the least and the greatest
ZigInputs ==
    ((-ZigMax) .. ZigMax)
        \cup {I32_MAX, I32_MAX - 1, -I32_MAX, (-I32_MAX) - 1}

InitZigzag ==
    /\ \E n \in ZigInputs : InitVal(<<n>>)
    /\ buf = << >>
    /\ read = 0

\* zigzag_encode of the value given
ZigzagEncode ==
    /\ call.op = "new"
    /\ val' = Append(val, zigzag_encode(val[1]))
    /\ call' = Called("zigzag_encode", "true")
    /\ UNCHANGED <<board, moves, index, win, widget, buf, read>>

\* zigzag_decode of the value that zigzag_encode returned
ZigzagDecode ==
    /\ call.op = "zigzag_encode"
    /\ val' = Append(val, zigzag_decode(val[2]))
    /\ call' = Called("zigzag_decode", "true")
    /\ UNCHANGED <<board, moves, index, win, widget, buf, read>>

NextZigzag == ZigzagEncode \/ ZigzagDecode

SpecZigzag == InitZigzag /\ [][NextZigzag]_vars

\* the u32 values below 2^16 given to interleave: the small ones, the ones
\* with one bit set, and the ones with all bits set or all but one
MortonInputs ==
    (0 .. MortonMax)
        \cup {2 ^ k : k \in 0 .. 15}
        \cup {\hffff - 2 ^ k : k \in 0 .. 15}
        \cup {\hffff}

InitMorton ==
    /\ \E x \in MortonInputs, y \in MortonInputs : InitVal(<<x, y>>)
    /\ buf = << >>
    /\ read = 0

\* interleave of the two values given
Interleave ==
    /\ call.op = "new"
    /\ val' = Append(val, interleave(val[1], val[2]))
    /\ call' = Called("interleave", "true")
    /\ UNCHANGED <<board, moves, index, win, widget, buf, read>>

\* deinterleave of the value that interleave returned
Deinterleave ==
    /\ call.op = "interleave"
    /\ val' = val \o deinterleave(val[3])
    /\ call' = Called("deinterleave", "true")
    /\ UNCHANGED <<board, moves, index, win, widget, buf, read>>

NextMorton == Interleave \/ Deinterleave

SpecMorton == InitMorton /\ [][NextMorton]_vars

\* the bytes of the streams given to read_var_u14: with and without the
\* continuation bit
VarBytes == {\h00, \h01, \h7f, \h80, \h81, \hff}

\* Either a value below 2^14 to write at the end of an array that is empty
\* or holds one byte, with the offset `read` at the end of the array; or a
\* stream of up to two bytes with the offset anywhere in it or at its end.
InitVarint ==
    \/ /\ \E v \in 0 .. \h3fff : InitVal(<<v>>)
       /\ buf \in {<< >>, <<\hff>>}
       /\ read = Len(buf)
    \/ /\ InitVal(<< >>)
       /\ buf \in {<< >>} \cup [1 .. 1 -> VarBytes] \cup [1 .. 2 -> VarBytes]
       /\ read \in 0 .. Len(buf)

\* write_var_u14(buf, val) of the value given
WriteVar ==
    /\ call.op = "new"
    /\ Len(val) = 1
    /\ buf' = write_var_u14(buf, val[1])
    /\ call' = Called("write_var_u14", "true")
    /\ UNCHANGED <<board, moves, index, win, widget, val, read>>

\* read_var_u14(buf, read), of the bytes written or of the stream given
ReadVar ==
    /\ \/ call.op = "write_var_u14"
       \/ call.op = "new" /\ Len(val) = 0
    /\ val' = val \o read_var_u14(buf, read).val
    /\ read' = read_var_u14(buf, read).read
    /\ call' = Called("read_var_u14", read_var_u14(buf, read).ret)
    /\ UNCHANGED <<board, moves, index, win, widget, buf>>

NextVarint == WriteVar \/ ReadVar

SpecVarint == InitVarint /\ [][NextVarint]_vars

\* a move of either player at a point of the board, to encode: val holds
\* x, y and the player
InitMove ==
    /\ \E x \in 0 .. (BOARD_SIZE - 1), y \in 0 .. (BOARD_SIZE - 1),
          stone \in {Black, White} : InitVal(<<x, y, stone>>)
    /\ buf = << >>
    /\ read = 0

\* the code of the move is computed and written with write_var_u14
EncodeMove ==
    /\ call.op = "new"
    /\ val' = Append(val, encode_move(Point(val[1], val[2]), val[3]))
    /\ buf' = write_var_u14(buf, encode_move(Point(val[1], val[2]), val[3]))
    /\ call' = Called("encode_move", "true")
    /\ UNCHANGED <<board, moves, index, win, widget, read>>

\* the move decoded from what read_var_u14 returns
Decoding(r) ==
    IF r.ret = "value"
    THEN <<decode_move(r.val[1]).pos.x, decode_move(r.val[1]).pos.y,
           decode_move(r.val[1]).stone>>
    ELSE << >>

\* the code is read with read_var_u14 and decoded
DecodeMove ==
    /\ call.op = "encode_move"
    /\ val' = val \o Decoding(read_var_u14(buf, read))
    /\ read' = read_var_u14(buf, read).read
    /\ call' = Called("decode_move", read_var_u14(buf, read).ret)
    /\ UNCHANGED <<board, moves, index, win, widget, buf>>

NextMove == EncodeMove \/ DecodeMove

SpecMove == InitMove /\ [][NextMove]_vars

\* the cells that SpecImport offers to make_move
ImportPoints == {Origin, Point(Origin.x, Origin.y + 1)}

\* the bytes in the texts given to import_game: a control byte and the
\* byte of a cell
ImportInBytes == {END_SEQUENCE, cell_byte(Origin)}

\* the byte arrays in the texts given to import_game: every sequence of up
\* to ImportBytes of these bytes, and a row of WIN_LEN Black moves
ImportBufs ==
    UNION {[1 .. n -> ImportInBytes] : n \in 0 .. ImportBytes}
        \cup {RowBuf(WIN_LEN)}

\* the texts of the clipboard: the ones with the prefix and the '/', of
\* these byte arrays or of no base64, and the ones without the prefix or
\* without the '/', of a byte array that is a game
ImportTexts ==
    [prefix : {TRUE}, slash : {TRUE},
     data : {<< >>} \cup {<<d>> : d \in ImportBufs}]
        \cup [prefix : BOOLEAN, slash : BOOLEAN, data : {<<RowBuf(WIN_LEN)>>}]

\* the widget after import_game, r being the game and the exit taken; buf
\* keeps the bytes decoded from the text, and the record of the call the
\* answer that the user gives when asked
Imported(r, text, yes) ==
    /\ board' = r.g.board
    /\ moves' = r.g.moves
    /\ index' = r.g.index
    /\ win' = r.g.win
    /\ call' = [op |-> "import_game", ret |-> r.ret,
                index |-> index, total |-> Len(moves), win |-> win,
                yes |-> yes]
    /\ buf' = IF text.data = << >> THEN << >> ELSE text.data[1]
    /\ widget' = import_widget(widget, r)
    /\ UNCHANGED <<val, read>>

\* import_game with a text on the clipboard and an answer of the user
Import(text, yes) == Imported(import_game(game, text, yes), text, yes)

\* the widget: moves by clicks, undo, and imports
NextImport ==
    \/ \E p \in ImportPoints, stone \in {Black, White} : MakeMove(p, stone)
    \/ Undo
    \/ \E text \in ImportTexts, yes \in BOOLEAN : Import(text, yes)

SpecImport == Init /\ [][NextImport]_vars

\* the widget after a handler: r is the game it leaves and the exit it
\* took, w the fields of the widget it leaves
Handled(r, w, op) ==
    /\ board' = r.g.board
    /\ moves' = r.g.moves
    /\ index' = r.g.index
    /\ win' = r.g.win
    /\ call' = [op |-> op, ret |-> r.ret,
                index |-> index, total |-> Len(moves), win |-> win]
    /\ widget' = w
    /\ UNCHANGED <<buf, val, read>>

\* a handler that calls game_updated() if the call on the game returns
\* true
Updating(r, op) == Handled(r, updated_if(widget, r), op)

\* the positions of the clicks: two cells of the board, and off the board
ClickPoints == {<< >>} \cup {<<p>> : p \in ImportPoints}

\* the byte arrays of the texts imported: a Black move, two Black moves,
\* and what is no game
WidgetBufs == {<<cell_byte(Origin)>>, RowBuf(2), <<END_SEQUENCE>>}

\* the texts of the clipboard
WidgetTexts ==
    [prefix : {TRUE}, slash : {TRUE},
     data : {<< >>} \cup {<<d>> : d \in WidgetBufs}]

Click(p, yes) ==
    Updating(mousePressEvent(game, widget, p, yes), "mousePressEvent")

Wheel(forward) == Updating(wheelEvent(game, widget, forward), "wheelEvent")

Pass == Handled([g |-> game, ret |-> "void"], pass(widget), "pass")

UndoAct == Updating(undo(game), "undo")

RedoAct == Updating(redo(game), "redo")

Home == Updating(jump(game, 0), "home")

End == Updating(jump(game, total_moves(game)), "end")

\* the user checks or unchecks review_act; toggle_review only repaints
ToggleReview ==
    Handled([g |-> game, ret |-> "void"],
            [widget EXCEPT !.reviewing = ~widget.reviewing], "toggle_review")

\* the user checks or unchecks lock_stone_act
ToggleLock ==
    Handled([g |-> game, ret |-> "void"],
            [widget EXCEPT !.stone_locked = ~widget.stone_locked],
            "lock_stone")

\* BoardWidget: every handler that reads or changes the game, the stone or
\* the two checked states
NextWidget ==
    \/ \E p \in ClickPoints, yes \in BOOLEAN : Click(p, yes)
    \/ \E forward \in BOOLEAN : Wheel(forward)
    \/ Pass
    \/ UndoAct
    \/ RedoAct
    \/ Home
    \/ End
    \/ ToggleReview
    \/ ToggleLock
    \/ \E text \in WidgetTexts, yes \in BOOLEAN : Import(text, yes)

SpecWidget == Init /\ [][NextWidget]_vars

(***************************************************************************)
(* What the properties are stated with.                                    *)
(***************************************************************************)
\* The board obtained by replaying the moves ms in order onto an empty
\* board: a cell holds the stone of the last move made on it, if any.
Replay(ms) ==
    [c \in Cells |->
        LET on == {i \in 1 .. Len(ms) : cell(ms[i].pos) = c}
        IN  IF on = {}
            THEN None
            ELSE ms[CHOOSE i \in on : \A j \in on : j <= i].stone]

\* every point of the board
BoardPoints ==
    {Point(x, y) : x \in 0 .. (BOARD_SIZE - 1), y \in 0 .. (BOARD_SIZE - 1)}

\* the points a property calls make_move with: the offered cells and the
\* corners of the board
ProbePoints ==
    BlockPoints \cup RowPoints \cup
    {Point(x, y) : x \in {0, BOARD_SIZE - 1}, y \in {0, BOARD_SIZE - 1}}

\* more points out of the board: both coordinates too large, one of them
\* just too large beside the last row or column, and y = 4294967295
FarPoints ==
    {Point(BOARD_SIZE, BOARD_SIZE), Point(BOARD_SIZE - 1, BOARD_SIZE),
     Point(BOARD_SIZE, BOARD_SIZE - 1), Point(0, BOARD_SIZE + 1),
     Point(Origin.x, -1)}

\* the board mat with the cell of p holding stone and every other cell as
\* it is
With(mat, p, stone) == [c \in Cells |-> IF c = cell(p) THEN stone ELSE mat[c]]

\* a call that returned ret and left the game g as it was
Unchanged(g, ret) == [g |-> g, ret |-> ret]

\* the places of the control bytes among the first n of the bytes bs
CtrlPlaces(bs, n) ==
    {j \in 1 .. n : bs[j] = BEGIN_SEQUENCE \/ bs[j] = END_SEQUENCE}

\* a sequence is open before the i-th of the bytes bs: the last control
\* byte before it is a BEGIN_SEQUENCE
OpenBefore(bs, i) ==
    LET before == CtrlPlaces(bs, i - 1)
    IN  /\ before # {}
        /\ bs[CHOOSE j \in before : \A k \in before : k <= j] = BEGIN_SEQUENCE

\* the places in bs of the bytes that are not control bytes
CellPlaces(bs) == (1 .. Len(bs)) \ CtrlPlaces(bs, Len(bs))

\* the k-th smallest of a set of numbers
Nth(places, k) ==
    CHOOSE i \in places : Cardinality({j \in places : j < i}) = k - 1

\* the player whose stone the i-th of the bytes bs is, in a byte array
\* whose control bytes are in order: Black, changed once by every
\* END_SEQUENCE and by every cell outside a sequence before it
PlayerAt(bs, i) ==
    LET changes == {j \in 1 .. (i - 1) :
                       \/ bs[j] = END_SEQUENCE
                       \/ j \in CellPlaces(bs) /\ ~OpenBefore(bs, j)}
    IN  IF Cardinality(changes) % 2 = 0 THEN Black ELSE White

\* the steps k for which every cell from p to the point k steps along the
\* axis is a cell of the board that holds the stone of p
RunSteps(mat, p, axis) ==
    {k \in (1 - BOARD_SIZE) .. (BOARD_SIZE - 1) :
        \A j \in 1 .. (IF k < 0 THEN -k ELSE k) :
            LET q == Along(p, axis, IF k < 0 THEN -j ELSE j)
            IN  /\ q.x \in 0 .. (BOARD_SIZE - 1)
                /\ q.y \in 0 .. (BOARD_SIZE - 1)
                /\ mat[q.y * BOARD_SIZE + q.x] = mat[p.y * BOARD_SIZE + p.x]}

\* the contiguous run of the stone of p through p along the axis, from its
\* first to its last cell
Run(mat, p, axis) ==
    LET steps == RunSteps(mat, p, axis)
    IN  [start |-> Along(p, axis, CHOOSE k \in steps : \A j \in steps : k <= j),
         end |-> Along(p, axis, CHOOSE k \in steps : \A j \in steps : j <= k)]

\* the number of cells from the start to the end of a row, both included
Span(row) ==
    LET dx == row.end.x - row.start.x
        dy == row.end.y - row.start.y
        abs(n) == IF n < 0 THEN -n ELSE n
    IN  (IF abs(dx) > abs(dy) THEN abs(dx) ELSE abs(dy)) + 1

\* the point p is off the board or holds another stone than `stone` or none
Stops(mat, p, stone) ==
    \/ p.x \notin 0 .. (BOARD_SIZE - 1)
    \/ p.y \notin 0 .. (BOARD_SIZE - 1)
    \/ mat[p.y * BOARD_SIZE + p.x] # stone

\* the point p is off the board or holds the opponent's stone
Blocked(mat, p, stone) == Stops(mat, p, stone) /\ Stops(mat, p, None)

\* the cells of SpecEdge
EdgePoints == {Corner} \cup {EdgeList[i] : i \in 1 .. EdgeCells}

\* Origin and the eight cells around it
ScanPoints ==
    {Point(Origin.x + dx, Origin.y + dy) : dx \in {-1, 0, 1}, dy \in {-1, 0, 1}}

\* the i-th and the j-th of the moves ms both exist and have one colour
SameStone(ms, i, j) ==
    /\ i \in 1 .. Len(ms)
    /\ j \in 1 .. Len(ms)
    /\ ms[i].stone = ms[j].stone

\* The bytes the format lays down for the first n of the moves ms: the
\* empty sequence 0xff 0xfe if the first move is White, then for each move
\* its cell y * 15 + x, with 0xff before it if it is the first of a group
\* of two or more moves of one colour and 0xfe after it if it is the last
\* of such a group.
RECURSIVE Bracketed(_, _)
Bracketed(ms, n) ==
    IF n = 0
    THEN IF ms # << >> /\ ms[1].stone = White THEN <<255, 254>> ELSE << >>
    ELSE Bracketed(ms, n - 1)
             \o (IF SameStone(ms, n, n + 1) /\ ~SameStone(ms, n - 1, n)
                 THEN <<255>> ELSE << >>)
             \o <<ms[n].pos.y * 15 + ms[n].pos.x>>
             \o (IF SameStone(ms, n - 1, n) /\ ~SameStone(ms, n, n + 1)
                 THEN <<254>> ELSE << >>)

(***************************************************************************)
(* Properties.                                                             *)
(***************************************************************************)
\* C1: in every reachable state (whatever calls were made, those that
\* return false or throw included) the board is the replay of the past
\* moves moves[0..index) onto an empty board, and the cells of the future
\* (undone) moves are empty.
C1_BoardIsReplayOfPast ==
    /\ board = Replay(past_moves(game))
    /\ \A i \in (index + 1) .. Len(moves) : at(board, moves[i].pos) = None

\* C1 witness: a jump has moved the cursor into the middle of the ledger,
\* so that there are past moves on the board and future moves off it.
C1_Witness ==
    /\ call.op = "jump" /\ call.ret = "true"
    /\ 0 < index /\ index + 1 < Len(moves)
    /\ call.index > index

\* C2: make_move on a point of the board that is occupied returns false
\* (it does not throw) and leaves moves, future moves included, index, the
\* board and the win record as they were.
C2_OccupiedIsRejected ==
    \A p \in BoardPoints, stone \in {Black, White} :
        at(board, p) # None =>
            make_move(game, p, stone) = Unchanged(game, "false")

\* C2 witness: a make_move has returned false in a game that has future
\* moves and a stored win, all of which are as the call found them.
C2_Witness ==
    /\ call.op = "make_move" /\ call.ret = "false"
    /\ index < Len(moves)
    /\ win # << >>
    /\ call.index = index /\ call.total = Len(moves) /\ call.win = win

\* C3: make_move of a Black or White stone on an empty point p of the board
\* returns true; the moves become the past moves followed by (p, stone),
\* the cursor is one more and equals the number of moves, and the board
\* holds the stone at p and is unchanged elsewhere.
C3_MoveIsAppended ==
    \A p \in ProbePoints, stone \in {Black, White} :
        at(board, p) = None =>
            LET r == make_move(game, p, stone)
            IN  /\ r.ret = "true"
                /\ r.g.moves = SubSeq(moves, 1, index) \o <<Move(p, stone)>>
                /\ r.g.index = index + 1
                /\ r.g.index = Len(r.g.moves)
                /\ r.g.board = With(board, p, stone)

\* C3 witness: a make_move has returned true at a cursor that had future
\* moves beyond it; the new move is the last one and its stone is on the
\* board.
C3_Witness ==
    /\ call.op = "make_move" /\ call.ret = "true"
    /\ call.index < call.total
    /\ index = call.index + 1 /\ index = Len(moves)
    /\ at(board, moves[index].pos) = moves[index].stone

\* C4: from a game with n applied moves (the cursor at the end), jump(j)
\* with j < n followed by a make_move that succeeds leaves j + 1 moves, the
\* first j original ones and the new one; the discarded moves cannot be
\* reached any more: redo returns false and a jump to any index beyond
\* j + 1 throws.
C4_BranchTruncates ==
    index = Len(moves) =>
        \A j \in 0 .. (index - 1), p \in ProbePoints, stone \in {Black, White} :
            LET a == jump(game, j)
                b == make_move(a.g, p, stone)
            IN  b.ret = "true" =>
                    /\ a.ret = "true"
                    /\ total_moves(b.g) = j + 1
                    /\ b.g.moves = SubSeq(moves, 1, j) \o <<Move(p, stone)>>
                    /\ redo(b.g) = Unchanged(b.g, "false")
                    /\ \A t \in (j + 2) .. (Len(moves) + 1) :
                           jump(b.g, t) = Unchanged(b.g, "throws")

\* C4 witness: a make_move has succeeded at a cursor that had two or more
\* future moves beyond it, and the ledger now ends with the new move.
C4_Witness ==
    /\ call.op = "make_move" /\ call.ret = "true"
    /\ call.total >= call.index + 2
    /\ Len(moves) = call.index + 1
    /\ index = Len(moves)

\* C5: a make_move that records a win records it at the cursor it leaves,
\* where first_win() reports it.  undo, redo and jump leave a stored win as
\* it is, and after any of them first_win() reports that win if the cursor
\* is at or beyond the win's index and nothing if the cursor is before it.
\* So a win recorded at index k stays visible at every cursor >= k and
\* hidden at every cursor < k until the next make_move.
C5_WinVisibility ==
    [][/\ (call'.op = "make_move" /\ win' # win /\ win' # << >>) =>
             /\ win'[1].index = index'
             /\ first_win(game') = win'
       /\ (call'.op \in {"undo", "redo", "jump"} /\ win # << >>) =>
             /\ win' = win
             /\ first_win(game') =
                    IF index' >= win[1].index THEN win ELSE << >>]_vars

\* C5 witness: a win was visible, and a jump has moved the cursor before
\* the win's index: the win is still stored and first_win() reports nothing.
C5_Witness ==
    /\ call.op = "jump" /\ call.ret = "true"
    /\ win # << >> /\ call.win = win
    /\ call.index >= win[1].index
    /\ index < win[1].index
    /\ first_win(game) = << >>

\* C6: a make_move that succeeds re-evaluates the win record, to (new
\* cursor, row through p) if find_win_row(p) finds a row on the new board
\* and to none otherwise, only when no win is stored or the stored win's
\* index is at or beyond the new cursor; a stored win whose index is before
\* the new cursor is left as it is.
C6_WinStaleness ==
    \A p \in BlockPoints \cup RowPoints, stone \in {Black, White} :
        at(board, p) = None =>
            LET r == make_move(game, p, stone)
                found == find_win_row(With(board, p, stone), p)
            IN  IF win = << >> \/ win[1].index >= index + 1
                THEN r.g.win = IF found = << >>
                               THEN << >>
                               ELSE <<[index |-> index + 1, row |-> found[1]]>>
                ELSE r.g.win = win

\* C6 witness: a make_move has succeeded in a game whose stored win had an
\* index before the new cursor, and the win record is as the call found it.
C6_Witness ==
    /\ call.op = "make_move" /\ call.ret = "true"
    /\ call.win # << >>
    /\ call.win[1].index < index
    /\ win = call.win

\* C7: undo returns false and changes nothing when the cursor is 0;
\* otherwise it returns true, the cursor is one less, and the cell of the
\* move now just beyond the cursor is None, every other cell as it was.
C7_Undo ==
    LET r == undo(game)
    IN  IF index = 0
        THEN r = Unchanged(game, "false")
        ELSE /\ r.ret = "true"
             /\ r.g.index = index - 1
             /\ r.g.board = With(board, moves[r.g.index + 1].pos, None)

\* C7 witness: an undo has returned true; the cursor is one less than the
\* call found it and the cell of the move beyond it is empty.
C7_Witness ==
    /\ call.op = "undo" /\ call.ret = "true"
    /\ index = call.index - 1 /\ index >= 1
    /\ at(board, moves[index + 1].pos) = None

\* C8: redo returns false and changes nothing when the cursor is at the
\* end of the moves; otherwise it returns true, the cell of the move at the
\* cursor holds that move's stone, every other cell as it was, and the
\* cursor is one more.
C8_Redo ==
    LET r == redo(game)
    IN  IF index = Len(moves)
        THEN r = Unchanged(game, "false")
        ELSE /\ r.ret = "true"
             /\ r.g.index = index + 1
             /\ r.g.board =
                    With(board, moves[index + 1].pos, moves[index + 1].stone)

\* C8 witness: a redo has returned true below the end of the moves; the
\* cursor is one more than the call found it and the stone of the move
\* just applied is on the board.
C8_Witness ==
    /\ call.op = "redo" /\ call.ret = "true"
    /\ index = call.index + 1 /\ index < Len(moves)
    /\ at(board, moves[index].pos) = moves[index].stone

\* C9: undo, redo and jump change neither the moves (their number or any
\* of them) nor the stored win record: a step that changes the moves is a
\* make_move.
C9_OnlyMakeMoveChangesMoves ==
    /\ undo(game).g.moves = moves /\ undo(game).g.win = win
    /\ redo(game).g.moves = moves /\ redo(game).g.win = win
    /\ \A t \in 0 .. (Len(moves) + 1) :
           jump(game, t).g.moves = moves /\ jump(game, t).g.win = win
    /\ call.op \in {"undo", "redo", "jump"} =>
           Len(moves) = call.total /\ win = call.win

\* C9 witness: a jump has moved the cursor back by two or more in a game
\* with a stored win; the number of moves and the win are as it found them.
C9_Witness ==
    /\ call.op = "jump" /\ call.ret = "true"
    /\ index + 2 <= call.index
    /\ win # << >>
    /\ Len(moves) = call.total /\ win = call.win

\* C10: jump(target) throws, having changed nothing, if target is beyond
\* the number of moves; returns false with no change if target is the
\* cursor; otherwise returns true and the cursor is target.
C10_Jump ==
    \A target \in 0 .. (Len(moves) + 2) :
        LET r == jump(game, target)
        IN  IF target > Len(moves)
            THEN r = Unchanged(game, "throws")
            ELSE IF target = index
            THEN r = Unchanged(game, "false")
            ELSE r.ret = "true" /\ r.g.index = target

\* C10 witness: a jump has thrown in a game with moves on and off the
\* board, and the cursor and the number of moves are as it found them.
C10_Witness ==
    /\ call.op = "jump" /\ call.ret = "throws"
    /\ 0 < index /\ index < Len(moves)
    /\ index = call.index /\ Len(moves) = call.total

\* C11: make_move on a point out of the board (x >= 15 or y >= 15, whatever
\* the stone) throws, it neither returns false nor places a stone on some
\* clamped cell, and leaves moves, future moves included, index, the board
\* and the win record as they were.
C11_OutOfBoardThrows ==
    \A p \in OutPoints \cup FarPoints, stone \in {Black, White} :
        make_move(game, p, stone) = Unchanged(game, "throws")

\* C11 witness: a make_move has thrown in a game with past and future
\* moves; the cursor, the number of moves and the board are as before.
C11_Witness ==
    /\ call.op = "make_move" /\ call.ret = "throws"
    /\ 0 < index /\ index < Len(moves)
    /\ index = call.index /\ Len(moves) = call.total
    /\ board = Replay(past_moves(game))

\* C12: infer_turn() is Black at cursor 0 and otherwise the colour opposite
\* to the stone of the last past move moves[index-1]; the answer is the
\* same for a game that has the same past moves and cursor but no future
\* moves, an empty board and no win record.
C12_InferTurn ==
    LET expected == IF index = 0 THEN Black
                    ELSE IF moves[index].stone = Black THEN White ELSE Black
        bare == [board |-> EmptyBoard, moves |-> past_moves(game),
                 index |-> index, win |-> << >>]
    IN  /\ infer_turn(game) = expected
        /\ infer_turn(bare) = expected

\* C12 witness: after an undo the last past move and the last of all the
\* moves have different colours, and infer_turn() follows the past one.
C12_Witness ==
    /\ call.op = "undo" /\ call.ret = "true"
    /\ 0 < index /\ index < Len(moves)
    /\ moves[index].stone = White /\ moves[Len(moves)].stone = Black
    /\ infer_turn(game) = Black

\* C13: for a game whose cursor is at the end of its moves (one built by
\* make_move calls alone, Black and White in any order), deserialize of its
\* serialize returns a game, and that game has the same moves and the same
\* cursor.
C13_RoundTrip ==
    index = Len(moves) =>
        LET r == deserialize(serialize(game))
        IN  /\ r.ret = "value"
            /\ r.val[1].moves = moves
            /\ r.val[1].index = index

\* C13 witness: a make_move has completed a game of three moves, Black
\* then White twice, whose bytes decode to a game.
C13_Witness ==
    /\ call.op = "make_move" /\ call.ret = "true"
    /\ index = 3 /\ index = Len(moves)
    /\ moves[1].stone = Black /\ moves[2].stone = White
    /\ moves[3].stone = White
    /\ deserialize(serialize(game)).ret = "value"

\* C14: for every byte array deserialize returns nullopt or a game, it
\* does not throw; nullopt carries no game; a game returned has its cursor
\* at the end of its moves, its board is the replay of its moves, and the
\* whole of it, the win record included, is the game that the make_move
\* calls of its moves build from a new game.
C14_DeserializeIsTotal ==
    LET r == deserialize(buf)
    IN  /\ r.ret \in {"value", "nullopt"}
        /\ r.ret = "nullopt" => r.val = << >>
        /\ r.ret = "value" =>
               LET g == r.val[1]
               IN  /\ g.index = total_moves(g)
                   /\ g.board = Replay(g.moves)
                   /\ g.win = Played(g.moves, Len(g.moves)).win
                   /\ g = Played(g.moves, Len(g.moves))

\* C14 witness: deserialize has returned a game that holds a win, recorded
\* at a move before its last, with the cursor at the end of its moves.
C14_Witness ==
    /\ call.op = "deserialize" /\ call.ret = "value"
    /\ win # << >> /\ win[1].index < index
    /\ index = Len(moves)
    /\ deserialize(buf).val = <<game>>

\* C15: deserialize returns nullopt for a byte array in which a
\* BEGIN_SEQUENCE (0xff) comes while a sequence is open, or an END_SEQUENCE
\* (0xfe) comes while none is open, or a sequence is open at the end.
C15_MarkerValidation ==
    LET nullopt == [ret |-> "nullopt", val |-> << >>]
    IN  /\ (\E i \in 1 .. Len(buf) :
                buf[i] = BEGIN_SEQUENCE /\ OpenBefore(buf, i))
               => deserialize(buf) = nullopt
        /\ (\E i \in 1 .. Len(buf) :
                buf[i] = END_SEQUENCE /\ ~OpenBefore(buf, i))
               => deserialize(buf) = nullopt
        /\ OpenBefore(buf, Len(buf) + 1) => deserialize(buf) = nullopt

\* C15 witness: deserialize has returned nullopt for a byte array with
\* nothing wrong but a sequence left open: its one control byte is a
\* BEGIN_SEQUENCE, after a cell and before two more, all of them distinct
\* cells of the board.
C15_Witness ==
    /\ call.op = "deserialize" /\ call.ret = "nullopt"
    /\ Len(buf) = 4
    /\ CtrlPlaces(buf, Len(buf)) = {2} /\ buf[2] = BEGIN_SEQUENCE
    /\ \A i \in CellPlaces(buf) : buf[i] < BOARD_SIZE * BOARD_SIZE
    /\ \A i, j \in CellPlaces(buf) : i # j => buf[i] # buf[j]
    /\ moves = << >>

\* C16: when deserialize returns a game, its moves are the bytes that are
\* not control bytes, in order, the byte b as a move at (b % 15, b / 15) of
\* the player whose turn it is there.  When a byte that is not a control
\* byte is 225 or more (a point out of the board), or is the same as an
\* earlier byte (a cell already taken), deserialize returns nullopt,
\* whatever came before that byte.
C16_CellValidation ==
    LET r == deserialize(buf)
        places == CellPlaces(buf)
    IN  /\ (\E i \in places : buf[i] >= BOARD_SIZE * BOARD_SIZE)
               => r = [ret |-> "nullopt", val |-> << >>]
        /\ (\E i, j \in places : i < j /\ buf[i] = buf[j])
               => r = [ret |-> "nullopt", val |-> << >>]
        /\ r.ret = "value" =>
               r.val[1].moves =
                   [k \in 1 .. Cardinality(places) |->
                       LET i == Nth(places, k)
                       IN  Move(Point(buf[i] % 15, buf[i] \div 15),
                                PlayerAt(buf, i))]

\* C16 witness: deserialize has returned nullopt for a byte array without
\* control bytes whose first three bytes are cells of the board, the third
\* the same as the first.
C16_Witness ==
    /\ call.op = "deserialize" /\ call.ret = "nullopt"
    /\ Len(buf) >= 3 /\ CtrlPlaces(buf, Len(buf)) = {}
    /\ buf[1] < BOARD_SIZE * BOARD_SIZE /\ buf[2] < BOARD_SIZE * BOARD_SIZE
    /\ buf[1] # buf[2] /\ buf[3] = buf[1]
    /\ moves = << >>

\* C17: when the past moves are Black, White, Black, ... in turn, serialize
\* returns as many bytes as the cursor counts, the i-th being y * 15 + x of
\* the i-th past move, and none of them is 0xff or 0xfe.
C17_AlternatingIsPlain ==
    (\A i \in 1 .. index :
         moves[i].stone = IF i % 2 = 1 THEN Black ELSE White)
        => LET bytes == serialize(game)
           IN  /\ Len(bytes) = index
               /\ \A i \in 1 .. index :
                      bytes[i] = moves[i].pos.y * 15 + moves[i].pos.x
               /\ \A i \in 1 .. Len(bytes) : bytes[i] \notin {255, 254}

\* C17 witness: after an undo the past moves are Black then White, a
\* White move is beyond the cursor, and serialize returns two bytes.
C17_Witness ==
    /\ call.op = "undo" /\ call.ret = "true"
    /\ index = 2 /\ Len(moves) = 3
    /\ moves[1].stone = Black /\ moves[2].stone = White
    /\ moves[3].stone = White
    /\ Len(serialize(game)) = 2

\* C18: for past moves in any colour order the bytes of serialize are: the
\* empty sequence 0xff 0xfe first if and only if the first past move is
\* White; then the cells of the past moves in order, with one 0xff just
\* before the first cell and one 0xfe just after the last cell of every
\* maximal group of two or more consecutive moves of one colour; and no
\* other control byte.
C18_SequencesAreBracketed ==
    serialize(game) = Bracketed(past_moves(game), index)

\* C18 witness: the past moves are White, White, Black: the bytes begin
\* with the empty sequence and then hold the two White cells in a sequence.
C18_Witness ==
    /\ index = 3
    /\ moves[1].stone = White /\ moves[2].stone = White
    /\ moves[3].stone = Black
    /\ serialize(game) =
           <<255, 254, 255, cell_byte(moves[1].pos), cell_byte(moves[2].pos),
             254, cell_byte(moves[3].pos)>>

\* C19: the bytes of serialize are those of the game that has the same
\* past moves and no future moves (the one built by make_move calls
\* alone), and those of any game that has the same past moves and another
\* future (a make_move on an empty cell, undone); deserialize of them
\* returns a game whose moves are the past moves alone, with the cursor
\* where it was.
C19_SerializeReadsPast ==
    LET bytes == serialize(game)
        r == deserialize(bytes)
    IN  /\ bytes = serialize(Played(past_moves(game), index))
        /\ \A p \in BlockPoints, stone \in {Black, White} :
               at(board, p) = None =>
                   bytes = serialize(undo(make_move(game, p, stone).g).g)
        /\ r.ret = "value"
        /\ r.val[1].moves = past_moves(game)
        /\ total_moves(r.val[1]) = index
        /\ r.val[1].index = index

\* C19 witness: a jump has left one move before the cursor and two beyond
\* it, and the bytes of serialize decode to a game of one move.
C19_Witness ==
    /\ call.op = "jump" /\ call.ret = "true"
    /\ index = 1 /\ Len(moves) = 3
    /\ total_moves(deserialize(serialize(game)).val[1]) = 1

\* C20: find_win_row(p) is nullopt when the cell p is empty; otherwise it
\* is the contiguous run through p of the first of the axes Vertical,
\* Ascending, Horizontal, Descending, in that order, whose run has 5 cells
\* or more, whichever later axes also have one, and nullopt when no axis
\* has one.
C20_FirstAxisWins ==
    \A p \in ScanPoints :
        LET order == <<"Vertical", "Ascending", "Horizontal", "Descending">>
            long == {i \in 1 .. 4 :
                        Cardinality(RunSteps(board, p, order[i])) >= 5}
        IN  find_win_row(board, p) =
                IF at(board, p) = None \/ long = {}
                THEN << >>
                ELSE <<Run(board, p,
                           order[CHOOSE i \in long : \A j \in long : i <= j])>>

\* C20 witness: a make_move at Origin has completed runs of five along the
\* ascending, the horizontal and the descending axis but not along the
\* vertical one, and the win recorded is the ascending run.
C20_Witness ==
    /\ call.op = "make_move" /\ call.ret = "true"
    /\ Cardinality(RunSteps(board, Origin, "Vertical")) < 5
    /\ Cardinality(RunSteps(board, Origin, "Ascending")) >= 5
    /\ Cardinality(RunSteps(board, Origin, "Horizontal")) >= 5
    /\ Cardinality(RunSteps(board, Origin, "Descending")) >= 5
    /\ win # << >>
    /\ win[1].row = Run(board, Origin, "Ascending")
    /\ win[1].row # Run(board, Origin, "Horizontal")

\* C21: for a cell p that holds a stone and every axis, scan_row returns
\* the first and the last cell of the contiguous segment through p of
\* cells of the board holding p's stone (start backwards, end forwards
\* along the axis); the cell before the start and the cell after the end
\* are off the board, empty or of the other colour, the segment never
\* passing an edge of the board (also not at x = 0 or y = 0, nor from the
\* end of one row of `mat` to the start of the next); and the length
\* returned is the number of cells from start to end.
C21_ScanRowIsTheRun ==
    \A p \in EdgePoints :
        at(board, p) # None =>
            \A i \in 1 .. Len(AXES) :
                LET r == scan_row(board, p, AXES[i])
                IN  /\ r.row = Run(board, p, AXES[i])
                    /\ r.len = Cardinality(RunSteps(board, p, AXES[i]))
                    /\ r.len = Span(r.row)
                    /\ Stops(board, Along(r.row.start, AXES[i], -1),
                             at(board, p))
                    /\ Stops(board, Along(r.row.end, AXES[i], 1),
                             at(board, p))

\* C21 witness: a Black stone has been put on Corner beside Black stones
\* at (1, 0) and (2, 0); the horizontal scan from Corner returns the three
\* cells from Corner on, and the scan from the Black stone on the last cell
\* of the first row returns that cell alone although (0, 1) is Black too.
C21_Witness ==
    /\ call.op = "make_move" /\ call.ret = "true"
    /\ scan_row(board, Corner, "Horizontal") =
           [len |-> 3, row |-> [start |-> Corner, end |-> Point(2, 0)]]
    /\ at(board, Point(0, 1)) = Black
    /\ at(board, Point(BOARD_SIZE - 1, 0)) = Black
    /\ scan_row(board, Point(BOARD_SIZE - 1, 0), "Horizontal").len = 1

\* C22: through a stone of a run of exactly 5 find_win_row returns a row
\* of exactly 5 cells, the run; through a stone of a run of exactly 4 with
\* both ends blocked by the opponent or the edge of the board it returns
\* nullopt; through a stone of a run of 6 or more it returns the whole
\* run, as many cells long as the run.
C22_RunLengthBoundary ==
    \A k \in 0 .. LineCells :
        LET p == LinePoint(k)
            stone == at(board, p)
            run == Run(board, p, "Horizontal")
            n == Cardinality(RunSteps(board, p, "Horizontal"))
            row == find_win_row(board, p)
        IN  stone # None =>
                /\ n = WIN_LEN => row = <<run>> /\ Span(row[1]) = WIN_LEN
                /\ (/\ n = WIN_LEN - 1
                    /\ Blocked(board, Along(run.start, "Horizontal", -1), stone)
                    /\ Blocked(board, Along(run.end, "Horizontal", 1), stone))
                   => row = << >>
                /\ n > WIN_LEN => row = <<run>> /\ Span(row[1]) = n

\* C22 witness: a move on column LineCells has completed a run of exactly
\* 5 Black stones that starts after a White stone, and find_win_row
\* through the stone placed returns these 5 cells.
C22_Witness ==
    /\ call.op = "make_move" /\ call.ret = "true"
    /\ \A k \in (LineCells - 4) .. LineCells : at(board, LinePoint(k)) = Black
    /\ at(board, LinePoint(LineCells - 5)) = White
    /\ find_win_row(board, LinePoint(LineCells)) =
           <<[start |-> LinePoint(LineCells - 4), end |-> LinePoint(LineCells)]>>

MaximalLine(mat, row, axis) ==
    /\ at(mat, row.start) # None
    /\ row = Run(mat, row.start, axis)
    /\ Stops(mat, Along(row.start, axis, -1), at(mat, row.start))
    /\ Stops(mat, Along(row.end, axis, 1), at(mat, row.end))

\* C24 as stated: whenever first_win() returns a win, its row is a maximal
\* contiguous line of at least 5 stones of one colour on the current board.
C24_RowMaximalNow ==
    first_win(game) # << >> =>
        LET row == first_win(game)[1].row
        IN  /\ Span(row) >= WIN_LEN
            /\ \E i \in 1 .. Len(AXES) : MaximalLine(board, row, AXES[i])

\* C24 amended: whenever first_win() returns a win, its row is a maximal
\* contiguous line of at least 5 stones of one colour, through the stone
\* of move number win.index, on the board as it was after that move; on
\* the current board the row is a part of the run through that stone.
C24_RowMaximalWhenRecorded ==
    first_win(game) # << >> =>
        LET w == first_win(game)[1]
            then == Replay(SubSeq(moves, 1, w.index))
            p == moves[w.index].pos
        IN  /\ w.index \in 1 .. index
            /\ Span(w.row) >= WIN_LEN
            /\ \E i \in 1 .. Len(AXES) :
                   /\ MaximalLine(then, w.row, AXES[i])
                   /\ w.row = Run(then, p, AXES[i])
                   /\ LET now == Run(board, p, AXES[i])
                          lo == Span([start |-> now.start, end |-> w.row.start])
                          hi == Span([start |-> w.row.end, end |-> now.end])
                      IN  Span(now) = lo + Span(w.row) + hi - 2

\* C24 witness: first_win() returns the row of the 5 stones from Origin on
\* while the next cell of the row holds a stone of the same colour, placed
\* after the win was recorded.
C24_Witness ==
    /\ first_win(game) # << >>
    /\ first_win(game)[1].index = WIN_LEN
    /\ first_win(game)[1].row =
           [start |-> Origin, end |-> Along(Origin, "Horizontal", WIN_LEN - 1)]
    /\ at(board, Along(Origin, "Horizontal", WIN_LEN)) =
           at(board, Origin)
    /\ index > WIN_LEN

\* the game after n calls of redo (forth) or of undo (not forth)
RECURSIVE Times(_, _, _)
Times(g, n, forth) ==
    IF n = 0
    THEN g
    ELSE Times(IF forth THEN redo(g).g ELSE undo(g).g, n - 1, forth)

\* C30: for every target <= total_moves(), jump(target) leaves the game
\* (moves, index, board, win) as target - index calls of redo() leave it
\* when target > index, and as index - target calls of undo() leave it
\* when target < index.
C30_JumpIsRepeatedStep ==
    \A target \in 0 .. Len(moves) :
        /\ target > index =>
               jump(game, target).g = Times(game, target - index, TRUE)
        /\ target < index =>
               jump(game, target).g = Times(game, index - target, FALSE)

\* C30 witness: a jump has gone back over two moves or more, and a jump
\* from here to where it came from is two calls of redo or more.
C30_Witness ==
    /\ call.op = "jump" /\ call.ret = "true"
    /\ call.index >= index + 2
    /\ call.index <= Len(moves)
    /\ jump(game, call.index).g.index = call.index
    /\ jump(game, call.index).g =
           Times(game, call.index - index, TRUE)
    /\ jump(game, call.index).g # redo(game).g

\* C25: zigzag_encode maps 0, -1, 1, -2, 2, ... to 0, 1, 2, 3, 4, ..., a
\* value n >= 0 to 2n and a value n < 0 to -2n - 1, for the values from
\* -ZigMax to ZigMax; and zigzag_decode of what zigzag_encode returned is
\* the value encoded, for these and for the least and the greatest i32.
C25_ZigzagRoundTrip ==
    /\ call.op \in {"zigzag_encode", "zigzag_decode"} =>
           (val[1] \in (-ZigMax) .. ZigMax =>
               val[2] = IF val[1] >= 0 THEN 2 * val[1] ELSE (-2) * val[1] - 1)
    /\ call.op = "zigzag_decode" => val[3] = val[1]

\* C25 witness: -2 was encoded as 3 and 3 decoded as -2.
C25_Witness ==
    /\ call.op = "zigzag_decode"
    /\ val = <<-2, 3, -2>>

\* C26: for x and y below 2^16, bit i of x is bit 2i and bit i of y is
\* bit 2i + 1 of interleave(x, y), for every i from 0 to 15, and
\* deinterleave of interleave(x, y) is the pair (x, y).
C26_Interleave ==
    /\ call.op \in {"interleave", "deinterleave"} =>
           \A i \in 0 .. 15 :
               /\ Bit(val[3], 2 * i) = Bit(val[1], i)
               /\ Bit(val[3], 2 * i + 1) = Bit(val[2], i)
    /\ call.op = "deinterleave" => <<val[4], val[5]>> = <<val[1], val[2]>>

\* C26 witness: 3 and 2^15 were interleaved to the word with the bits 0, 2
\* and 31 set, and this word deinterleaved to 3 and 2^15.
C26_Witness ==
    /\ call.op = "deinterleave"
    /\ val = <<3, 2 ^ 15, (5 - I32_MAX) - 1, 3, 2 ^ 15>>

\* the bytes of the value v below 2^14: v alone if v < 128, else the low 7
\* bits of v with the continuation bit and then the other 7 bits
VarBytesOf(v) == IF v < 128 THEN <<v>> ELSE <<(v % 128) + 128, v \div 128>>

\* C27: write_var_u14 of a value v below 2^14 appends to buf the byte v if
\* v < 128 and else two bytes, the low 7 bits of v with 0x80 set and then
\* the other 7 bits without 0x80; read_var_u14 at the offset of these
\* bytes returns v and leaves the offset after them; and read_var_u14
\* returns nullopt at an offset that is the end of the stream, at a byte
\* with 0x80 set that is the last of the stream, and at a byte with 0x80
\* set that a byte with 0x80 set follows.
C27_Varint ==
    /\ call.op = "write_var_u14" =>
           /\ Len(buf) = call.total + Len(VarBytesOf(val[1]))
           /\ SubSeq(buf, call.total + 1, Len(buf)) = VarBytesOf(val[1])
           /\ call.total = 1 => buf[1] = \hff
           /\ read_var_u14(buf, call.total) =
                  Read("value", <<val[1]>>, Len(buf))
    /\ (call.op = "read_var_u14" /\ Len(val) = 2) =>
           /\ call.ret = "value"
           /\ val[2] = val[1]
           /\ read = call.index + Len(VarBytesOf(val[1]))
    /\ \A off \in 0 .. Len(buf) :
           (\/ off = Len(buf)
            \/ off + 1 = Len(buf) /\ buf[off + 1] >= 128
            \/ off + 1 < Len(buf) /\ buf[off + 1] >= 128 /\ buf[off + 2] >= 128)
               => read_var_u14(buf, off).ret = "nullopt"
    /\ (call.op = "read_var_u14" /\ call.ret = "nullopt") =>
           /\ Len(val) = 0
           /\ \/ call.index = Len(buf)
              \/ call.index + 1 = Len(buf) /\ buf[Len(buf)] >= 128
              \/ /\ call.index + 1 < Len(buf)
                 /\ buf[call.index + 1] >= 128
                 /\ buf[call.index + 2] >= 128

\* C27 witness: 300 was written after the byte 0xff as the bytes 0xac and
\* 0x02, and read back from offset 1, which left the offset at 3.
C27_Witness ==
    /\ call.op = "read_var_u14" /\ call.ret = "value"
    /\ val = <<300, 300>>
    /\ buf = <<\hff, \hac, \h02>>
    /\ call.index = 1
    /\ read = 3

\* C28: for every point (x, y) of the board and either player, the code
\* (interleave(zigzag_encode(x - 7), zigzag_encode(y - 7)) << 1) |
\* (player - 1) is below 2^14 and write_var_u14 writes it in at most 2
\* bytes; and read_var_u14 of these bytes, with the low bit split off,
\* deinterleave, zigzag_decode and the middle added, gives x, y and the
\* player again.
C28_MoveCode ==
    /\ call.op \in {"encode_move", "decode_move"} =>
           /\ val[4] \in 0 .. \h3fff
           /\ Len(buf) \in 1 .. 2
    /\ call.op = "decode_move" =>
           /\ call.ret = "value"
           /\ SubSeq(val, 5, 7) = SubSeq(val, 1, 3)
           /\ read = Len(buf)

\* C28 witness: White at (0, 14) has the code 499, two bytes, and
\* was decoded from them.
C28_Witness ==
    /\ call.op = "decode_move"
    /\ val = <<0, BOARD_SIZE - 1, White, 499, 0, BOARD_SIZE - 1, White>>
    /\ Len(buf) = 2

\* C29: an import_game that fails (the text has no prefix, has no '/' at
\* its end, is not base64, or deserialize returns nullopt), or that the
\* user declines, leaves the game of the widget (board, moves, index, win)
\* as it was; and an import_game that changes the game leaves the game
\* that deserialize returned for the bytes of the text.
C29_ImportRejection ==
    [][call'.op = "import_game" =>
           /\ call'.ret \in {"no prefix", "no slash", "no base64", "no game",
                             "declined"} => game' = game
           /\ (Len(moves) # 0 /\ ~call'.yes) => game' = game
           /\ game' # game =>
                  /\ call'.ret = "imported"
                  /\ deserialize(buf').ret = "value"
                  /\ game' = deserialize(buf').val[1]
                  /\ index' = Len(moves')
                  /\ board' = Replay(moves')]_vars

\* C29 witness: the user has declined an import into a game that has
\* moves and a move undone, and the game has them still.
C29_Witness ==
    /\ call.op = "import_game" /\ call.ret = "declined" /\ ~call.yes
    /\ deserialize(buf).ret = "value"
    /\ index = 1 /\ Len(moves) = 2
    /\ call.index = 1 /\ call.total = 2
    /\ board = Replay(SubSeq(moves, 1, 1))

\* C31: after a handler of the widget that changes the game and calls
\* game_updated() (a click that places a stone, undo, redo, home, end, a
\* step of the wheel, an import of another game), the stone of the widget
\* is game.infer_turn() if lock_stone_act is not checked, and is the stone
\* it was if lock_stone_act is checked.
C31_TurnTracking ==
    [][(\/ /\ call'.op \in {"mousePressEvent", "wheelEvent", "undo", "redo",
                            "home", "end"}
           /\ call'.ret = "true"
        \/ /\ call'.op = "import_game"
           /\ call'.ret = "imported")
       => /\ game' # game
          /\ ~widget.stone_locked => widget'.stone = infer_turn(game')
          /\ widget.stone_locked => widget'.stone = widget.stone
          /\ widget'.stone_locked = widget.stone_locked]_vars

\* C31 witness: with lock_stone_act checked, a click has placed a second
\* Black stone, and the stone of the widget is Black still, while
\* infer_turn() is White.
C31_Witness ==
    /\ call.op = "mousePressEvent" /\ call.ret = "true"
    /\ widget.stone_locked
    /\ index = 2
    /\ moves[1].stone = Black /\ moves[2].stone = Black
    /\ widget.stone = Black
    /\ infer_turn(game) = White

\* C32: all the moves of the game, the past and the future ones, are at
\* points of the board and no two at the same point, so there are at most
\* 225; and the cells of the future moves are empty, so that redo and a
\* jump forwards set stones on empty cells only.
C32_MovesDistinctInBoard ==
    /\ \A i \in 1 .. Len(moves) :
           /\ moves[i].pos.x \in 0 .. (BOARD_SIZE - 1)
           /\ moves[i].pos.y \in 0 .. (BOARD_SIZE - 1)
           /\ moves[i].stone \in {Black, White}
    /\ \A i, j \in 1 .. Len(moves) : moves[i].pos = moves[j].pos => i = j
    /\ Len(moves) <= BOARD_SIZE * BOARD_SIZE
    /\ \A k \in (index + 1) .. Len(moves) : at(board, moves[k].pos) = None
    /\ \A k \in 1 .. index : at(board, moves[k].pos) = moves[k].stone

\* C32 witness: a jump has gone back over two moves, whose cells are now
\* empty, and a move is left in the past.
C32_Witness ==
    /\ call.op = "jump" /\ call.ret = "true"
    /\ index = 1 /\ Len(moves) = 3
    /\ \A k \in 2 .. 3 : at(board, moves[k].pos) = None
    /\ at(board, moves[1].pos) # None

\* the sign of n
Sign(n) == IF n > 0 THEN 1 ELSE IF n < 0 THEN -1 ELSE 0

\* the cells of a row, from its start to its end
OnRow(row) ==
    {Point(row.start.x + k * Sign(row.end.x - row.start.x),
           row.start.y + k * Sign(row.end.y - row.start.y)) :
        k \in 0 .. (Span(row) - 1)}

\* C33: the index is from 0 to total_moves(); and when a win is stored,
\* seen by first_win() or not, its index is from 1 to total_moves(), the
\* move with this number is at a cell of its row, and after the moves up
\* to this one every cell of the row holds the stone of this move.
C33_IndexAndWinRanges ==
    /\ index \in 0 .. Len(moves)
    /\ win # << >> =>
           /\ win[1].index \in 1 .. Len(moves)
           /\ moves[win[1].index].pos \in OnRow(win[1].row)
           /\ \A p \in OnRow(win[1].row) :
                  Replay(SubSeq(moves, 1, win[1].index))[cell(p)] =
                      moves[win[1].index].stone

\* C33 witness: a win is stored that first_win() does not return, the
\* index having gone back before it.
C33_Witness ==
    /\ call.op \in {"undo", "jump"} /\ call.ret = "true"
    /\ win # << >>
    /\ index < win[1].index
    /\ first_win(game) = << >>
    /\ win[1].index = WIN_LEN

\* the board mat has, along some axis, a contiguous line of WIN_LEN stones
\* or more of one colour
HasLine(mat) ==
    \E p \in BoardPoints :
        /\ mat[cell(p)] # None
        /\ \E i \in 1 .. Len(AXES) :
               Cardinality(RunSteps(mat, p, AXES[i])) >= WIN_LEN

\* C34: in every state reached by make_move of Black and White stones,
\* undo, redo and jump, first_win() returns a win if and only if the board
\* has, along some axis, a contiguous line of at least 5 stones of one
\* colour.
C34_WinIffLine == (first_win(game) # << >>) <=> HasLine(board)

\* C34 witness: a redo has set the fifth stone of a line again, a sixth
\* move is still undone, and first_win() returns the win.
C34_Witness ==
    /\ call.op = "redo" /\ call.ret = "true"
    /\ index = WIN_LEN /\ Len(moves) = WIN_LEN + 1
    /\ HasLine(board)
    /\ ~HasLine(unset(board, moves[index].pos))
    /\ first_win(game) # << >>
    /\ first_win(game)[1].index = index

\* C35: an undo() that returns true followed by redo() leaves the game as
\* it was (moves, index, board, and what first_win() returns), the redo()
\* returning true; and so does a redo() that returns true followed by
\* undo().
C35_UndoRedoInverse ==
    /\ undo(game).ret = "true" =>
           /\ redo(undo(game).g).ret = "true"
           /\ redo(undo(game).g).g = game
           /\ first_win(redo(undo(game).g).g) = first_win(game)
    /\ redo(game).ret = "true" =>
           /\ undo(redo(game).g).ret = "true"
           /\ undo(redo(game).g).g = game
           /\ first_win(undo(redo(game).g).g) = first_win(game)

\* C35 witness: after a redo that returned true, with a move still
\* undone, first_win() returns a win; undo hides it and redo after the
\* undo restores the game and the win; redo and then undo restore the game
\* as well.
C35_Witness ==
    /\ call.op = "redo" /\ call.ret = "true"
    /\ index \in 1 .. (Len(moves) - 1)
    /\ first_win(game) # << >>
    /\ first_win(undo(game).g) = << >>
    /\ redo(undo(game).g).g = game
    /\ redo(game).g # game
    /\ undo(redo(game).g).g = game

\* C36: from a state with the index n, undo() returns true n times and
\* then false, and the game is then at index 0 with an empty board, no
\* first_win() and the moves it had; and redo() returns true
\* total_moves() - n times and then false, the index being total_moves().
C36_UndoRedoCounts ==
    /\ \A k \in 0 .. (index - 1) : undo(Times(game, k, FALSE)).ret = "true"
    /\ undo(Times(game, index, FALSE)).ret = "false"
    /\ Times(game, index, FALSE).index = 0
    /\ Times(game, index, FALSE).board = EmptyBoard
    /\ first_win(Times(game, index, FALSE)) = << >>
    /\ Times(game, index, FALSE).moves = moves
    /\ \A k \in 0 .. (Len(moves) - index - 1) :
           redo(Times(game, k, TRUE)).ret = "true"
    /\ redo(Times(game, Len(moves) - index, TRUE)).ret = "false"
    /\ Times(game, Len(moves) - index, TRUE).index = Len(moves)
    /\ Times(game, Len(moves) - index, TRUE).moves = moves

\* C36 witness: undo() has returned false at index 0 after the moves of a
\* game with a win were undone: the board is empty, the moves and the win
\* record are kept, and first_win() returns none.
C36_Witness ==
    /\ call.op = "undo" /\ call.ret = "false"
    /\ index = 0
    /\ Len(moves) >= WIN_LEN
    /\ board = EmptyBoard
    /\ win # << >>
    /\ first_win(game) = << >>
    /\ redo(Times(game, Len(moves), TRUE)).ret = "false"

\* C37: make_move judges the point against the board alone: at the point q
\* of any future move (one after the index, left there by undo or a jump
\* back), make_move(q, stone) returns true with either stone, puts the stone
\* on q, and leaves as moves the past moves followed by the new one, so the
\* future move at q, like every future move, is gone.
C37_FutureCellIsFree ==
    \A k \in (index + 1) .. Len(moves), stone \in {Black, White} :
        LET q == moves[k].pos
            r == make_move(game, q, stone)
        IN  /\ at(board, q) = None
            /\ r.ret = "true"
            /\ at(r.g.board, q) = stone
            /\ r.g.index = index + 1
            /\ r.g.moves = Append(SubSeq(moves, 1, index), Move(q, stone))
            /\ future_moves(r.g) = << >>

\* C37 witness: a jump back has passed two moves or more, and make_move on
\* the point of the last of them, with the other stone, returns true and
\* leaves no move of the old stone on that point.
C37_Witness ==
    /\ call.op = "jump" /\ call.ret = "true"
    /\ call.index = Len(moves)
    /\ index >= 1
    /\ Len(moves) >= index + 2
    /\ LET last == moves[Len(moves)]
           r == make_move(game, last.pos, opposite(last.stone))
       IN  /\ r.ret = "true"
           /\ Len(r.g.moves) = index + 1
           /\ \A k \in 1 .. Len(r.g.moves) : r.g.moves[k] # last

====
